---- MODULE Spec2Model ----
(***************************************************************************)
(* A model of the auto-forward bot: the cloning engine of forwarder.py     *)
(* (clone_channel, clone_range, copy_message), the task registry of bot.py *)
(* (active_tasks, with the /clone, /crange and /cancel handlers) and the   *)
(* login state machine of user_client.py over the session store of         *)
(* database.py.                                                            *)
(*                                                                         *)
(* Eight specifications share the module.  SpecClone runs one clone job    *)
(* against one source channel of a few messages, SpecLongClone against     *)
(* channels long enough for the progress update of the 10th item and the   *)
(* cap on recorded errors.  SpecBot runs concurrent command handlers       *)
(* over active_tasks.  SpecJob follows one job of the bot from the marker  *)
(* being set to its removal, under fairness.  SpecLogin runs the login     *)
(* operations of the user client manager; SpecManager adds the manager     *)
(* methods the bot never calls.  SpecSession runs get_client await by      *)
(* await next to /logout and to running jobs.  SpecHelpers applies the     *)
(* helpers without state of forwarder.py (parse_telegram_link,             *)
(* check_post_permission) to inputs drawn from bounded sets.  Each keeps   *)
(* the variables it does not use fixed.                                    *)
(***************************************************************************)
EXTENDS Integers, Sequences, FiniteSets, TLC

\* ------------------------------------------------------------------------
\* Bounds of the model
\* ------------------------------------------------------------------------

\* Largest message id of the source channel.
MaxId == 3

\* Rate-limit signals (FloodWait) the platform raises during one job.
MaxFlood == 1

\* Users of the bot.
NumUsers == 1

\* Command messages the dispatcher hands to handlers.
MaxHandlers == 3

\* Client objects the user client manager creates (one per initiate_login).
MaxClients == 2

\* Messages of the source channel of a long job.
LongLen == 11

\* Messages of a long job's channel that are not skipped.
LongCopies == 7

\* ------------------------------------------------------------------------
\* Program constants
\* ------------------------------------------------------------------------

\* forwarder.py:335  limit=end_message_id - start_message_id + 100
RangeLimitSlack == 100

\* forwarder.py:256  if len(stats["errors"]) < 5
MaxErrors == 5

\* forwarder.py:260  (i + 1) % 10 == 0
ProgressEvery == 10

\* ------------------------------------------------------------------------
\* Variables
\* ------------------------------------------------------------------------

VARIABLES
    \* --- the cloning engine (forwarder.py) ---
    history,        \* the source channel: message id -> "absent" or the message's kind
    channels,       \* db.channels: last_message_id of the (source, user) document, -1 when there is no document
    job,            \* the arguments of the clone_channel / clone_range call
    messages,       \* the collected list (message ids), oldest first once reversed
    i,              \* the loop index of enumerate(messages), 0-based
    stats,          \* the stats dictionary
    pc,             \* where the job is: "start", "loop", "retry", "done"
    floods,         \* rate-limit signals received so far in this job
    calls,          \* every call made to the client for delivering a message, in order
    tally,          \* per item of messages: the increments made on its behalf
    progress,       \* the invocations of progress_callback, in order
    sleeps,         \* the inter-item delays slept: the 1-based index of the item each one followed
    report,         \* the dictionary returned to the caller
    \* --- the task registry and the command handlers (bot.py) ---
    active_tasks,   \* the keys of the active_tasks dictionary
    handler,        \* per dispatched command: its command, user and position
    set_by,         \* user -> the handlers whose jobs set the marker now in active_tasks (history variable)
    cancelled,      \* the running handlers whose user's marker a /cancel has deleted (history variable)
    user_client,    \* handler -> the client get_client returned to it and its loop copies with, 0 when not modelled
    \* --- the user client manager (user_client.py) and the store (database.py) ---
    pending_logins, \* user -> the in-flight login record, or NoPending
    active_clients, \* user -> the cached client, 0 when the user has no entry
    client_state,   \* client -> "new", "connected", "stopped" or "disconnected"
    next_client,    \* the number of Client objects created so far
    users,          \* db.users: the documents of the collection, in insertion order
    result,         \* the dictionary the last manager operation returned
    getting,        \* the get_client call that is suspended at an await, NotGetting when there is none
    \* --- the helpers without state (forwarder.py) ---
    invoked,        \* the helper called and its arguments
    returned        \* what the call returned, NotReturned before it has

cloneVars == <<history, channels, job, messages, i, stats, pc, floods, calls,
               tally, progress, sleeps, report>>

botVars == <<active_tasks, handler, set_by, cancelled, user_client>>

loginVars == <<pending_logins, active_clients, client_state, next_client, users,
               result, getting>>

helperVars == <<invoked, returned>>

vars == <<cloneVars, botVars, loginVars, helperVars>>

\* ------------------------------------------------------------------------
\* Helpers
\* ------------------------------------------------------------------------

Min(a, b) == IF a < b THEN a ELSE b

Max(a, b) == IF a > b THEN a ELSE b

RECURSIVE SumSeq(_)
SumSeq(s) == IF s = <<>> THEN 0 ELSE Head(s) + SumSeq(Tail(s))

\* A mutant of Reverse: the list is left newest first.
ReverseOmitted(s) == s

\* list.reverse()
Reverse(s) == [k \in 1..Len(s) |-> s[Len(s) + 1 - k]]

\* ------------------------------------------------------------------------
\* The source channel and its pagination
\* ------------------------------------------------------------------------

Kinds == {"normal", "empty", "service"}

MessageIds == 1..MaxId

\* The ids of the channel's messages from id n downwards, newest first.
RECURSIVE Newest(_, _)
Newest(ch, n) ==
    IF n = 0 THEN <<>>
    ELSE (IF ch[n] # "absent" THEN <<n>> ELSE <<>>) \o Newest(ch, n - 1)

\* client.get_chat_history(chat, limit=, offset_id=): the messages with an id
\* below offset_id (all of them when offset_id is 0), newest first, at most
\* limit of them (all of them when limit is 0 or None).
get_chat_history(ch, offset_id, limit) ==
    LET all   == Newest(ch, Cardinality(DOMAIN ch))
        below == IF offset_id = 0 THEN all
                 ELSE SelectSeq(all, LAMBDA m : m < offset_id)
        n     == IF limit = 0 THEN Len(below) ELSE Min(limit, Len(below))
    IN  SubSeq(below, 1, n)

\* clone_channel: the async for over the history, and messages.reverse().
ChannelMessages(ch, start_from_message_id, limit) ==
    Reverse(SelectSeq(get_chat_history(ch, 0, limit),
                      LAMBDA m : ~(start_from_message_id # 0 /\ m <= start_from_message_id)))

\* clone_range: the body of the async for, with its break.
RECURSIVE RangeScan(_, _, _)
RangeScan(h, start_message_id, end_message_id) ==
    IF h = <<>> THEN <<>>
    ELSE IF Head(h) < start_message_id THEN <<>>
    ELSE (IF Head(h) <= end_message_id THEN <<Head(h)>> ELSE <<>>)
         \o RangeScan(Tail(h), start_message_id, end_message_id)

\* A mutant of NormalizedRange: the bounds are used as given.
RangeAsGiven(a, b) == <<a, b>>

\* clone_range: "Ensure start <= end".
NormalizedRange(a, b) == IF a > b THEN <<b, a>> ELSE <<a, b>>

\* crange_command: "Ensure correct order", made before clone_range is called.
CrangeOrder(a, b) == IF a > b THEN <<b, a>> ELSE <<a, b>>

\* A mutant of RangeOffset: the pagination starts below the upper bound.
RangeOffsetAtEnd(end_message_id) == end_message_id

\* clone_range: offset_id=end_message_id + 1, the pagination returning the
\* messages with an id below offset_id.
RangeOffset(end_message_id) == end_message_id + 1

\* clone_range: the collected list for the call's bounds (a, b).
RangeMessages(ch, a, b) ==
    LET r == NormalizedRange(a, b)
        start_message_id == r[1]
        end_message_id   == r[2]
    IN  Reverse(RangeScan(get_chat_history(ch, RangeOffset(end_message_id),
                                           end_message_id - start_message_id + RangeLimitSlack),
                          start_message_id, end_message_id))

\* ------------------------------------------------------------------------
\* The cloning engine: clone_channel, clone_range, copy_message
\* ------------------------------------------------------------------------

EmptyStats == [total |-> 0, success |-> 0, failed |-> 0, skipped |-> 0, errors |-> <<>>]

NoReport == [returned |-> FALSE]

\* The returned dictionary: stats itself ("aborted" and "error" are absent,
\* here FALSE and ""), or {**stats, "error": ..., "aborted": True}.
Returned(st, aborted, error) ==
    [returned |-> TRUE, total |-> st.total, success |-> st.success,
     failed |-> st.failed, skipped |-> st.skipped, errors |-> st.errors,
     aborted |-> aborted, error |-> error]

ErrItemRestricted == "Channel has forwarding restricted. Cannot clone."
ErrRestricted     == "This channel has restricted forwarding/copying. Cannot clone."
ErrNoMessages     == "No messages found in the specified range."
ErrException      == "Error: exception"
ErrFloodWait      == "Error: FloodWait"

\* A mutant of Caught: only ChatForwardsRestricted is caught, any other
\* exception leaves the job as an exception.
CaughtOnlyRestricted(st, e) ==
    IF e = "restricted" THEN Returned(st, TRUE, ErrRestricted)
    ELSE [returned |-> FALSE, raised |-> e]

\* The except clauses of clone_channel and clone_range, for an exception of
\* kind e raised inside the try block.
Caught(st, e) ==
    IF e = "restricted" THEN Returned(st, TRUE, ErrRestricted)
    ELSE IF e = "flood" THEN Returned(st, TRUE, ErrFloodWait)
    ELSE Returned(st, TRUE, ErrException)

\* What the pagination of the source can do: deliver the history, or raise.
PageOutcomes == {"ok", "flood", "restricted", "error"}

\* What an invocation of progress_callback can do.
SinkOutcomes == {"ok", "raise"}

\* What client.copy_message can do: return the copy, raise
\* ChatForwardsRestricted, FloodWait or another RPCError, or raise an
\* exception that is no RPCError.
CopyOutcomes == {"ok", "restricted", "flood", "rpc_error", "exception"}

\* A mutant of Primitive: a retry after a rate-limit wait forwards.
PrimitiveForwardOnRetry(is_retry) ==
    IF is_retry THEN "forward_messages" ELSE "copy_message"

\* copy_message: the client method that delivers the message, on the first
\* attempt and on the retry after a FloodWait.
Primitive(is_retry) == "copy_message"

Jobs ==
    [mode : {"channel"}, a : {0}, b : {0},
     start_from_message_id : 0..MaxId, limit : 0..MaxId,
     progress_callback : BOOLEAN]
    \cup
    [mode : {"range"}, a : 0..(MaxId + 1), b : 0..(MaxId + 1),
     start_from_message_id : {0}, limit : {0},
     progress_callback : BOOLEAN]

NoTally == [success |-> 0, failed |-> 0, skipped |-> 0]

\* The increments made between two values of stats, added to one item's tally.
Tallied(t, before, after) ==
    [success |-> t.success + (after.success - before.success),
     failed  |-> t.failed + (after.failed - before.failed),
     skipped |-> t.skipped + (after.skipped - before.skipped)]

\* No command has been dispatched.
BotIdle ==
    /\ active_tasks = {}
    /\ handler = [h \in 1..MaxHandlers |-> [cmd |-> "none", user_id |-> 0, at |-> "idle", status_msg |-> "none"]]
    /\ set_by = [u \in 1..NumUsers |-> {}]
    /\ cancelled = {}
    /\ user_client = [h \in 1..MaxHandlers |-> 0]

NoCall == [fn |-> "none"]

NotReturned == [kind |-> "not returned"]

\* No helper is being called.
HelpersIdle ==
    /\ invoked = NoCall
    /\ returned = NotReturned

\* The user whose entries the manager specifications follow.  The manager's
\* dictionaries and the documents of db.users are keyed by user_id, and every
\* operation reads and writes the entry of its own user_id only.
Accounts == {1}

NoPending == [step |-> "none"]

NoResult == [op |-> "none"]

NotGetting == [at |-> "idle"]

\* UserClientManager.__init__ and an empty users collection.
LoginIdle ==
    /\ pending_logins = [u \in Accounts |-> NoPending]
    /\ active_clients = [u \in Accounts |-> 0]
    /\ client_state = [c \in 1..MaxClients |-> "new"]
    /\ next_client = 0
    /\ users = <<>>
    /\ result = NoResult
    /\ getting = NotGetting

InitClone ==
    /\ BotIdle
    /\ LoginIdle
    /\ HelpersIdle
    /\ history \in [MessageIds -> Kinds \cup {"absent"}]
    /\ channels \in {-1, 0}
    /\ job \in Jobs
    /\ messages = <<>>
    /\ i = 0
    /\ stats = EmptyStats
    /\ pc = "start"
    /\ floods = 0
    /\ calls = <<>>
    /\ tally = <<>>
    /\ progress = <<>>
    /\ sleeps = <<>>
    /\ report = NoReport

\* The list the job collects.
Collected ==
    IF job.mode = "channel"
    THEN ChannelMessages(history, job.start_from_message_id, job.limit)
    ELSE RangeMessages(history, job.a, job.b)

\* A mutant of RangeEmptyAborts: an empty range runs the (empty) loop.
RangeEmptyIgnored(total) == FALSE

\* clone_range: if stats["total"] == 0: return {..., "aborted": True}
RangeEmptyAborts(total) == total = 0

\* The job up to the loop: the first progress message of clone_range, the
\* pagination, the reversal, the total, the empty-range return and the
\* "Found ..." progress message.
Fetch ==
    /\ pc = "start"
    /\ \E pg \in PageOutcomes, s1 \in SinkOutcomes, s2 \in SinkOutcomes :
        LET cb    == job.progress_callback
            range == job.mode = "range"
            pre   == range /\ cb
            st    == [stats EXCEPT !.total = Len(Collected)]
            log1  == IF pre THEN <<[at |-> "fetching", n |-> 0]>> ELSE <<>>
            log2  == IF cb THEN <<[at |-> "found", n |-> st.total]>> ELSE <<>>
        IN  /\ (~pre) => s1 = "ok"
            /\ (pre /\ s1 = "raise") => (pg = "ok" /\ s2 = "ok")
            /\ (pg # "ok") => s2 = "ok"
            /\ (~cb \/ (range /\ RangeEmptyAborts(st.total))) => s2 = "ok"
            /\ IF pre /\ s1 = "raise"
               THEN /\ progress' = log1
                    /\ report' = Caught(stats, "error")
                    /\ pc' = "done"
                    /\ UNCHANGED <<messages, stats, tally>>
               ELSE IF pg # "ok"
               THEN /\ progress' = log1
                    /\ report' = Caught(stats, pg)
                    /\ pc' = "done"
                    /\ UNCHANGED <<messages, stats, tally>>
               ELSE /\ messages' = Collected
                    /\ stats' = st
                    /\ tally' = [k \in 1..Len(Collected) |-> NoTally]
                    /\ IF range /\ RangeEmptyAborts(st.total)
                       THEN /\ progress' = log1
                            /\ report' = Returned(st, TRUE, ErrNoMessages)
                            /\ pc' = "done"
                       ELSE /\ progress' = log1 \o log2
                            /\ IF s2 = "raise"
                               THEN report' = Caught(st, "error") /\ pc' = "done"
                               ELSE report' = report /\ pc' = "loop"
    /\ UNCHANGED <<history, channels, job, i, floods, calls, sleeps>>
    /\ UNCHANGED <<botVars, loginVars, helperVars>>

\* A mutant of Skipped: only an empty message is skipped.
SkippedOnlyEmpty(kind) == kind = "empty"

\* if message.empty or message.service
Skipped(kind) == kind \in {"empty", "service"}

\* if message.empty or message.service: stats["skipped"] += 1; continue
SkipItem ==
    /\ pc = "loop"
    /\ i < Len(messages)
    /\ Skipped(history[messages[i + 1]])
    /\ stats' = [stats EXCEPT !.skipped = @ + 1]
    /\ tally' = [tally EXCEPT ![i + 1] = Tallied(@, stats, stats')]
    /\ i' = i + 1
    /\ UNCHANGED <<history, channels, job, messages, pc, floods, calls, progress, sleeps, report>>
    /\ UNCHANGED <<botVars, loginVars, helperVars>>

\* db.update_last_message_id: update_one without upsert, so it writes only
\* when the (source, user) document exists; a store failure is swallowed.
update_last_message_id(doc, message_id, store_ok) ==
    IF store_ok /\ doc # -1 THEN message_id ELSE doc

\* A mutant of RestrictedCounts: the abort does not count the item.
RestrictedNotCounted(st) == st

\* elif error == "forwarding_restricted": stats["failed"] += 1
RestrictedCounts(st) == [st EXCEPT !.failed = @ + 1]

\* A mutant of OtherErrorCounts: every error joins stats["errors"].
OtherErrorsUncapped(st, message_id) ==
    [st EXCEPT !.failed = @ + 1,
               !.errors = Append(@, [id |-> message_id, error |-> "rpc_error"])]

\* else: stats["failed"] += 1; the error joins stats["errors"] while fewer
\* than 5 are recorded.
OtherErrorCounts(st, message_id) ==
    [st EXCEPT !.failed = @ + 1,
               !.errors = IF Len(@) < MaxErrors
                          THEN Append(@, [id |-> message_id, error |-> "rpc_error"])
                          ELSE @]

\* A mutant of Counted: a copied message is counted twice.
CountedSuccessTwice(st, o, message_id) ==
    IF o = "ok" THEN [st EXCEPT !.success = @ + 2]
    ELSE IF o = "restricted" THEN RestrictedCounts(st)
    ELSE IF o = "rpc_error" THEN OtherErrorCounts(st, message_id)
    ELSE st

\* A mutant of Counted: an RPC error other than the two special ones is
\* not counted.
CountedWithoutOtherErrors(st, o, message_id) ==
    IF o = "ok" THEN [st EXCEPT !.success = @ + 1]
    ELSE IF o = "restricted" THEN RestrictedCounts(st)
    ELSE st

\* The counters after copy_message returned for the item: the if / elif /
\* else on (success, error).  A FloodWait or an escaping exception leaves
\* them as they are.
Counted(st, o, message_id) ==
    IF o = "ok" THEN [st EXCEPT !.success = @ + 1]
    ELSE IF o = "restricted" THEN RestrictedCounts(st)
    ELSE IF o = "rpc_error" THEN OtherErrorCounts(st, message_id)
    ELSE st

\* One call of client.copy_message for item i and what the loop does with
\* its result: the rate-limit wait and retry of copy_message, the counters,
\* the high-water mark, the abort, the progress update of every 10th item,
\* the delay between messages and the step to the next item.
CopyMessage ==
    /\ pc \in {"loop", "retry"}
    /\ i < Len(messages)
    /\ ~Skipped(history[messages[i + 1]])
    /\ \E o \in CopyOutcomes, sk \in SinkOutcomes, store_ok \in BOOLEAN :
        LET id   == messages[i + 1]
            tick == job.progress_callback /\ ((i + 1) % ProgressEvery = 0)
            log  == [at |-> "progress", n |-> i + 1]
            call == [id |-> id, via |-> Primitive(pc = "retry"), outcome |-> o]
            st   == Counted(stats, o, id)
        IN  /\ (o = "flood") => floods < MaxFlood
            /\ (~(tick /\ o \in {"ok", "rpc_error"})) => sk = "ok"
            /\ (~(o = "ok" /\ job.mode = "channel")) => store_ok
            /\ calls' = Append(calls, call)
            /\ stats' = st
            /\ tally' = [tally EXCEPT ![i + 1] = Tallied(@, stats, st)]
            /\ floods' = IF o = "flood" THEN floods + 1 ELSE floods
            /\ channels' = IF o = "ok" /\ job.mode = "channel"
                           THEN update_last_message_id(channels, id, store_ok)
                           ELSE channels
            /\ CASE o = "flood" ->
                    /\ pc' = "retry"
                    /\ UNCHANGED <<i, progress, sleeps, report>>
                 [] o = "exception" ->
                    /\ report' = Caught(st, "error")
                    /\ pc' = "done"
                    /\ UNCHANGED <<i, progress, sleeps>>
                 [] o = "restricted" ->
                    /\ report' = Returned(st, TRUE, ErrItemRestricted)
                    /\ pc' = "done"
                    /\ UNCHANGED <<i, progress, sleeps>>
                 [] o \in {"ok", "rpc_error"} ->
                    /\ progress' = IF tick THEN Append(progress, log) ELSE progress
                    /\ IF tick /\ sk = "raise"
                       THEN /\ report' = Caught(st, "error")
                            /\ pc' = "done"
                            /\ UNCHANGED <<i, sleeps>>
                       ELSE /\ sleeps' = Append(sleeps, i + 1)
                            /\ report' = report
                            /\ pc' = "loop"
                            /\ i' = i + 1
    /\ UNCHANGED <<history, job, messages>>
    /\ UNCHANGED <<botVars, loginVars, helperVars>>

\* The loop is exhausted: return stats.
Finish ==
    /\ pc = "loop"
    /\ i = Len(messages)
    /\ report' = Returned(stats, FALSE, "")
    /\ pc' = "done"
    /\ UNCHANGED <<history, channels, job, messages, i, stats, floods, calls, tally, progress, sleeps>>
    /\ UNCHANGED <<botVars, loginVars, helperVars>>

NextClone == Fetch \/ SkipItem \/ CopyMessage \/ Finish

SpecClone == InitClone /\ [][NextClone]_vars

\* ------------------------------------------------------------------------
\* Long jobs: lists that reach the 10th item and more than 5 failures
\* ------------------------------------------------------------------------

\* The source channels of the long jobs: LongLen messages, the first e of
\* them service messages and the others ordinary ones, at most LongCopies of
\* these; the message at the position of the first progress update is of any
\* kind.
LongHistories ==
    {[m \in 1..LongLen |-> IF m = ProgressEvery THEN k
                           ELSE IF m <= e THEN "service" ELSE "normal"] :
        k \in Kinds, e \in (LongLen - LongCopies)..LongLen}

\* clone_channel over the whole channel and clone_range over all its ids,
\* each with a progress callback.
LongJobs ==
    {[mode |-> "channel", a |-> 0, b |-> 0, start_from_message_id |-> 0,
      limit |-> 0, progress_callback |-> TRUE],
     [mode |-> "range", a |-> 1, b |-> LongLen, start_from_message_id |-> 0,
      limit |-> 0, progress_callback |-> TRUE]}

InitLongClone ==
    /\ BotIdle
    /\ LoginIdle
    /\ HelpersIdle
    /\ history \in LongHistories
    /\ channels = -1
    /\ job \in LongJobs
    /\ messages = <<>>
    /\ i = 0
    /\ stats = EmptyStats
    /\ pc = "start"
    /\ floods = 0
    /\ calls = <<>>
    /\ tally = <<>>
    /\ progress = <<>>
    /\ sleeps = <<>>
    /\ report = NoReport

SpecLongClone == InitLongClone /\ [][NextClone]_vars

\* ------------------------------------------------------------------------
\* Properties of the cloning engine (checked under SpecClone,
\* and under SpecLongClone where a claim needs a list of 10 items or more)
\* ------------------------------------------------------------------------

\* The position of message id m in the collected list (0 when absent).
IndexOf(m) ==
    IF \E k \in 1..Len(messages) : messages[k] = m
    THEN CHOOSE k \in 1..Len(messages) : messages[k] = m
    ELSE 0

\* The bounds' interval [min(a, b), max(a, b)].
InBounds(m, a, b) == Min(a, b) <= m /\ m <= Max(a, b)

\* The ids of the channel's messages within [lo, hi], oldest first.
RECURSIVE Oldest(_, _, _)
Oldest(ch, lo, hi) ==
    IF lo > hi THEN <<>>
    ELSE (IF lo \in MessageIds /\ ch[lo] # "absent" THEN <<lo>> ELSE <<>>)
         \o Oldest(ch, lo + 1, hi)

\* Item k of the list is neither empty nor a service message.
NonSkipped(k) == history[messages[k]] = "normal"

\* copy_message returned a result for item k (it did not only raise).
CopyReturned(k) ==
    \E j \in 1..Len(calls) :
        /\ calls[j].id = messages[k]
        /\ calls[j].outcome \in {"ok", "restricted", "rpc_error"}

\* C1: in both clone_channel and clone_range the calls to copy_message are
\* made in strictly increasing message-id order; the same id is called again
\* only as the retry that follows a rate-limit signal for that id.
C1_CopyOrderIncreasing ==
    \A j \in 1..Len(calls) : \A k \in 1..Len(calls) :
        j < k =>
            \/ calls[j].id < calls[k].id
            \/ /\ calls[j].id = calls[k].id
               /\ \A m \in j..(k - 1) : calls[m].outcome = "flood"

\* C1 witness: a finished job that copied two different ids, one of them
\* after a rate-limit retry.
C1_Witness ==
    /\ pc = "done"
    /\ Len(calls) >= 3
    /\ \E j \in 1..Len(calls) : calls[j].outcome = "flood"
    /\ \E j \in 1..Len(calls) : calls[j].id # calls[1].id

\* C2 as stated, for the jobs that ran to the end of the list or were
\* aborted by forwarding-restricted: once the job has returned, every
\* non-skipped item of the collected list has had exactly one of success or
\* failed incremented on its behalf.
C2_EveryNonSkippedItemCounted ==
    (pc = "done" /\ report.error \in {"", ErrItemRestricted}) =>
        \A k \in 1..Len(messages) :
            NonSkipped(k) => tally[k].success + tally[k].failed = 1

\* C2 amended: once the job has returned, no non-skipped item has had both
\* counters (or one counter twice, or skipped) incremented on its behalf, and
\* it has had exactly one of success or failed incremented exactly when
\* copy_message returned a result for it; the items after an aborting item,
\* and an item whose copy raised an exception copy_message does not catch,
\* have had neither.
C2_ReturnedCopiesCountedOnce ==
    pc = "done" =>
        /\ \A k \in 1..Len(messages) :
            NonSkipped(k) =>
                /\ tally[k].skipped = 0
                /\ tally[k].success + tally[k].failed <= 1
                /\ CopyReturned(k) <=> (tally[k].success + tally[k].failed = 1)
        /\ stats.success = SumSeq([k \in 1..Len(messages) |-> tally[k].success])
        /\ stats.failed = SumSeq([k \in 1..Len(messages) |-> tally[k].failed])

\* C2 witness: a job aborted by forwarding-restricted on its second item of
\* three, after an RPC error on the first.
C2_Witness ==
    /\ pc = "done"
    /\ Len(messages) = 3
    /\ \A k \in 1..3 : NonSkipped(k)
    /\ tally[1].failed = 1
    /\ tally[2].failed = 1
    /\ tally[3] = NoTally
    /\ report.aborted

\* C3: when copying item k (1-based) of the list reports that the channel
\* forbids forwarding, the job returns at once a report with
\* success + failed + skipped = k, aborted set and a non-empty error, the
\* total still being n, and no item after k is processed.
C3_AbortKeepsPartialCounts ==
    \A j \in 1..Len(calls) :
        calls[j].outcome = "restricted" =>
            LET k == IndexOf(calls[j].id)
            IN  /\ j = Len(calls)
                /\ pc = "done"
                /\ k = i + 1
                /\ report.success + report.failed + report.skipped = k
                /\ report.total = Len(messages)
                /\ report.aborted
                /\ report.error # ""
                /\ \A l \in (k + 1)..Len(messages) :
                    /\ tally[l] = NoTally
                    /\ \A c \in 1..Len(calls) : calls[c].id # messages[l]

\* C3 witness: forwarding-restricted on item 2 of 3, after a skipped item.
C3_Witness ==
    /\ Len(messages) = 3
    /\ Len(calls) >= 1
    /\ calls[Len(calls)].outcome = "restricted"
    /\ calls[Len(calls)].id = messages[2]
    /\ report.skipped = 1
    /\ report.failed = 1

\* The bounds of a clone_range call contain no message of the source.
EmptyRangeJob ==
    /\ job.mode = "range"
    /\ \A m \in MessageIds : history[m] # "absent" => ~InBounds(m, job.a, job.b)

\* C4: clone_range over bounds that contain no existing message never enters
\* the loop: it calls copy_message for nothing, increments no counter, and
\* what it returns has total = 0 and aborted set.
C4_EmptyRangeAborts ==
    EmptyRangeJob =>
        /\ pc \in {"start", "done"}
        /\ calls = <<>>
        /\ stats.success = 0 /\ stats.failed = 0 /\ stats.skipped = 0
        /\ pc = "done" =>
            /\ report.total = 0
            /\ report.aborted
            /\ report.success = 0 /\ report.failed = 0 /\ report.skipped = 0

\* C4 witness: a source that has messages, none of them within the bounds,
\* and the "no messages" report returned.
C4_Witness ==
    /\ EmptyRangeJob
    /\ \E m \in MessageIds : history[m] # "absent"
    /\ pc = "done"
    /\ report.error = ErrNoMessages
    /\ report.total = 0
    /\ report.aborted

\* C5: clone_range with bounds (a, b) and with bounds (b, a) collects the
\* same list against the same source, namely the source's messages within
\* [min(a, b), max(a, b)], oldest first, whether or not crange_command has
\* ordered the bounds before the call; the loop processes that list. The
\* source and the bounds do not change during a job, so the equalities between
\* the lists are stated where the job starts, for every source and every pair
\* of bounds.
C5_RangeNormalization ==
    job.mode = "range" =>
        LET given   == RangeMessages(history, job.a, job.b)
            swapped == RangeMessages(history, job.b, job.a)
            o       == CrangeOrder(job.a, job.b)
        IN  /\ pc = "start" =>
                /\ given = swapped
                /\ given = Oldest(history, Min(job.a, job.b), Max(job.a, job.b))
                /\ RangeMessages(history, o[1], o[2]) = swapped
            /\ pc \in {"loop", "retry"} => messages = swapped
            /\ \A j \in 1..Len(calls) : InBounds(calls[j].id, job.a, job.b)

\* C5 witness: a range given with start above end, whose two messages were
\* both copied.
C5_Witness ==
    /\ job.mode = "range"
    /\ job.a > job.b
    /\ pc = "done"
    /\ ~report.aborted
    /\ report.success = 2
    /\ Len(calls) = 2

\* C10: every call that delivers a message to the destination, the retry
\* after a rate-limit wait included, is made through copy_message.
C10_OnlyCopyPrimitive ==
    \A j \in 1..Len(calls) : calls[j].via = "copy_message"

\* C10 witness: a message delivered by the retry that follows a rate-limit
\* wait.
C10_Witness ==
    \E j \in 1..Len(calls) :
        /\ j > 1
        /\ calls[j - 1].outcome = "flood"
        /\ calls[j].outcome = "ok"
        /\ calls[j].id = calls[j - 1].id

\* The counters of a returned dictionary are those of stats.
CountsSoFar(r, st) ==
    /\ r.total = st.total
    /\ r.success = st.success
    /\ r.failed = st.failed
    /\ r.skipped = st.skipped
    /\ r.errors = st.errors

\* C11: a job that has been called always ends by returning a dictionary,
\* never by raising: the step that ends it returns the counters accumulated
\* so far, and unless that step is the return after the last item (the loop
\* exhausted, nothing raised) the dictionary has aborted set and a non-empty
\* error; an exception of client.copy_message that copy_message does not
\* catch ends the job in this way.
C11_AlwaysAReport ==
    /\ [](pc = "done" <=> report # NoReport)
    /\ [][(pc # "done" /\ pc' = "done") =>
            /\ report'.returned
            /\ CountsSoFar(report', stats')
            /\ report'.aborted => report'.error # ""
            /\ (~report'.aborted) => (pc = "loop" /\ i = Len(messages) /\ report'.error = "")
            /\ (calls' # calls /\ calls'[Len(calls')].outcome = "exception")
                    => report'.aborted]_vars
    /\ [][(calls' # calls /\ calls'[Len(calls')].outcome = "exception") => pc' = "done"]_vars

\* C11 witness: after one message was copied, client.copy_message raises an
\* exception that is no RPCError, and the job returns an aborted report that
\* keeps the copy already counted.
C11_Witness ==
    /\ pc = "done"
    /\ Len(calls) = 2
    /\ calls[1].outcome = "ok"
    /\ calls[2].outcome = "exception"
    /\ report.returned
    /\ report.aborted
    /\ report.error = ErrException
    /\ report.success = 1
    /\ report.total = 3

\* The calls of client.copy_message that ended with one of the outcomes.
CallsWith(outcomes) == {j \in 1..Len(calls) : calls[j].outcome \in outcomes}

\* C17: a rate-limit signal met during a job is waited out and the same
\* request made again: a signalled copy is followed by a call for the same
\* message, failed counts only the copies that returned an error, no entry of
\* errors comes from a signal, and the signal is never the reason of an
\* aborted report.
C17_RateLimitNeverSurfaces ==
    /\ \A j \in CallsWith({"flood"}) :
            /\ pc = "retry" <=> j = Len(calls)
            /\ j < Len(calls) => calls[j + 1].id = calls[j].id
    /\ stats.failed = Cardinality(CallsWith({"restricted", "rpc_error"}))
    /\ Len(stats.errors) <= Cardinality(CallsWith({"rpc_error"}))
    /\ pc = "done" => report.error # ErrFloodWait

\* The step is a call of client.copy_message that ended with an RPCError
\* other than ChatForwardsRestricted and FloodWait.
OtherErrorStep ==
    /\ calls' # calls
    /\ calls'[Len(calls')].outcome = "rpc_error"

\* The copies that ended with such an error, in the order they were made.
OtherErrors == SelectSeq(calls, LAMBDA c : c.outcome = "rpc_error")

C28_SkippedItemsOnlySkipped ==
    /\ \A k \in 1..Len(messages) :
        history[messages[k]] \in {"empty", "service"} =>
            /\ \A j \in 1..Len(calls) : calls[j].id # messages[k]
            /\ tally[k].success = 0
            /\ tally[k].failed = 0
            /\ tally[k].skipped = IF k <= i THEN 1 ELSE 0
    /\ stats.skipped =
            Cardinality({k \in 1..i : history[messages[k]] \in {"empty", "service"}})

\* C28 witness: a finished job whose list held an empty message, service
\* messages and messages that were copied.
C28_Witness ==
    /\ pc = "done"
    /\ ~report.aborted
    /\ \E k \in 1..Len(messages) : history[messages[k]] = "empty"
    /\ \E k \in 1..Len(messages) : history[messages[k]] = "service"
    /\ report.skipped >= 2
    /\ report.success >= 1
    /\ report.success + report.failed + report.skipped = report.total

\* C29: whenever the loop leaves an item for the next one, whether the item
\* was copied, failed or skipped, it has slept the delay between messages
\* for that item.
C29_DelayAfterEveryItem ==
    [][i' = i + 1 => sleeps' = Append(sleeps, i + 1)]_vars

\* C30: once the loop has passed the n-th item of the list, n a multiple of
\* 10, the progress callback (when one was given) has been invoked for that
\* item, whatever the item's outcome.
C30_ProgressEveryTenthItem ==
    \A n \in 1..i :
        (job.progress_callback /\ n % ProgressEvery = 0) =>
            \E j \in 1..Len(progress) : progress[j] = [at |-> "progress", n |-> n]

\* C37: at every point of a clone job success + failed + skipped <= total,
\* no counter ever decreases, and a report returned without aborted has
\* success + failed + skipped = total.
C37_CountersAccountForTotal ==
    /\ [](/\ stats.success + stats.failed + stats.skipped <= stats.total
          /\ (report.returned /\ ~report.aborted) =>
                report.success + report.failed + report.skipped = report.total)
    /\ [][/\ stats'.success >= stats.success
          /\ stats'.failed >= stats.failed
          /\ stats'.skipped >= stats.skipped
          /\ stats'.total >= stats.total]_vars

\* C37 witness: a job that returned without aborted after copying, failing
\* and skipping at least one item each.
C37_Witness ==
    /\ pc = "done"
    /\ report.returned
    /\ ~report.aborted
    /\ report.success >= 1
    /\ report.failed >= 1
    /\ report.skipped >= 1
    /\ report.total = Len(messages)

\* C35: clone_range collects exactly the source's messages whose ids lie in
\* [min(start, end), max(start, end)], each once: the list the loop works
\* through holds every existing message within the bounds and nothing else,
\* and copy_message is only ever called with the id of an existing message
\* within the bounds.
C35_RangeCollectsExactlyBounds ==
    job.mode = "range" =>
        LET lo     == Min(job.a, job.b)
            hi     == Max(job.a, job.b)
            within == {m \in MessageIds : history[m] # "absent" /\ lo <= m /\ m <= hi}
        IN  /\ pc \in {"loop", "retry"} =>
                /\ {messages[k] : k \in 1..Len(messages)} = within
                /\ Len(messages) = Cardinality(within)
            /\ \A j \in 1..Len(calls) : calls[j].id \in within

\* C35 witness: a range job that ran to its end against a source holding
\* messages below the bounds, within them and above them.
C35_Witness ==
    /\ job.mode = "range"
    /\ pc = "done"
    /\ ~report.aborted
    /\ \E m \in MessageIds : history[m] # "absent" /\ m < Min(job.a, job.b)
    /\ \E m \in MessageIds : history[m] # "absent" /\ m > Max(job.a, job.b)
    /\ Len(messages) >= 1
    /\ Len(calls) >= 1

\* C31: a failure raised by the progress callback never aborts the job:
\* every invocation of the callback in the loop, failing or not, leaves the
\* loop running with the next item and no report returned.
C31_SinkFailureNeverAborts ==
    [][(/\ Len(progress') > Len(progress)
        /\ progress'[Len(progress')].at = "progress")
       => (pc' = "loop" /\ i' = i + 1 /\ report' = NoReport)]_vars

\* C32: in full-clone mode, after each successful copy the high-water mark
\* stored for the source channel and the user is the id of the message just
\* copied.
C32_HighWaterMarkFollowsCopies ==
    [][(/\ job.mode = "channel"
        /\ Len(calls') > Len(calls)
        /\ calls'[Len(calls')].outcome = "ok")
       => channels' = calls'[Len(calls')].id]_vars

\* ------------------------------------------------------------------------
\* The task registry: active_tasks and the /clone, /crange, /cancel handlers
\* ------------------------------------------------------------------------

Users == 1..NumUsers

Handlers == 1..MaxHandlers

\* No clone job is modelled in detail.
CloneOff ==
    /\ history = [m \in MessageIds |-> "absent"]
    /\ channels = -1
    /\ job = [mode |-> "none"]
    /\ messages = <<>>
    /\ i = 0
    /\ stats = EmptyStats
    /\ pc = "off"
    /\ floods = 0
    /\ calls = <<>>
    /\ tally = <<>>
    /\ progress = <<>>
    /\ sleeps = <<>>
    /\ report = NoReport

InitBot ==
    /\ CloneOff
    /\ BotIdle
    /\ LoginIdle
    /\ HelpersIdle

\* Messages are handed to handlers in the order of their slots.
NextSlot(h) == \A g \in Handlers : g < h => handler[g].at # "idle"

\* A mutant of AlreadyActive: the handler does not look at the registry.
AlreadyActiveUnchecked(user_id) == FALSE

\* clone_command, crange_command: if user_id in active_tasks
AlreadyActive(user_id) == user_id \in active_tasks

\* The handlers whose replication loop (clone_channel or clone_range) is
\* running for the user.
RunningLoops(user_id) ==
    {h \in Handlers : handler[h].user_id = user_id /\ handler[h].at = "running"}

\* The dispatcher starts the handler of a /clone or /crange message; the
\* handler runs to its first await: it replies that a task is already active
\* and returns, or goes on to get_client.
ReceiveClone(h, cmd, user_id) ==
    /\ handler[h].at = "idle"
    /\ NextSlot(h)
    /\ cmd \in {"clone", "crange"}
    /\ handler' = [handler EXCEPT ![h] =
            [cmd |-> cmd, user_id |-> user_id, status_msg |-> "none",
             at |-> IF AlreadyActive(user_id) THEN "rejected" ELSE "prechecks"]]
    /\ UNCHANGED <<active_tasks, set_by, cancelled, user_client>>
    /\ UNCHANGED <<cloneVars, loginVars, helperVars>>

\* The awaits between the registry check and the marker (get_client,
\* get_destination, the link and access checks, the status message) end
\* with a refusal: the handler returns without a marker and without a loop.
PrechecksFail(h) ==
    /\ handler[h].at = "prechecks"
    /\ handler' = [handler EXCEPT ![h].at = "refused"]
    /\ UNCHANGED <<active_tasks, set_by, cancelled, user_client>>
    /\ UNCHANGED <<cloneVars, loginVars, helperVars>>

\* The awaits all pass: active_tasks[user_id] = True, and the call of
\* clone_channel or clone_range, which runs to its first await.
StartLoop(h) ==
    /\ handler[h].at = "prechecks"
    /\ active_tasks' = active_tasks \cup {handler[h].user_id}
    /\ handler' = [handler EXCEPT ![h].at = "running", ![h].status_msg = "starting"]
    /\ set_by' = [set_by EXCEPT ![handler[h].user_id] = @ \cup {h}]
    /\ user_client' = [user_client EXCEPT ![h] =
                    IF handler[h].user_id \in DOMAIN active_clients
                    THEN active_clients[handler[h].user_id]
                    ELSE 0]
    /\ UNCHANGED cancelled
    /\ UNCHANGED <<cloneVars, loginVars, helperVars>>

\* The running loop invokes progress_callback: a no-op when the user's
\* marker is gone, an edit of the status message to the progress text
\* otherwise.
ProgressCallback(h) ==
    /\ handler[h].at = "running"
    /\ handler' = [handler EXCEPT ![h].status_msg =
            IF handler[h].user_id \notin active_tasks THEN @ ELSE "progress"]
    /\ UNCHANGED <<active_tasks, set_by, cancelled, user_client>>
    /\ UNCHANGED <<cloneVars, loginVars, helperVars>>

\* A mutant of Popped: the marker is left in the registry.
PopOmitted(tasks, user_id) == tasks

\* active_tasks.pop(user_id, None)
Popped(tasks, user_id) == tasks \ {user_id}

\* clone_channel or clone_range returns: active_tasks.pop(user_id, None) and
\* the final report.
LoopReturns(h) ==
    /\ handler[h].at = "running"
    /\ active_tasks' = Popped(active_tasks, handler[h].user_id)
    /\ handler' = [handler EXCEPT ![h].at = "reported", ![h].status_msg = "report"]
    /\ set_by' = [set_by EXCEPT ![handler[h].user_id] =
                    IF handler[h].user_id \in active_tasks' THEN @ ELSE {}]
    /\ cancelled' = cancelled \ {h}
    /\ user_client' = [user_client EXCEPT ![h] = 0]
    /\ UNCHANGED <<cloneVars, loginVars, helperVars>>

\* cancel_command: the marker is deleted when present.
Cancel(h, user_id) ==
    /\ handler[h].at = "idle"
    /\ NextSlot(h)
    /\ handler' = [handler EXCEPT ![h] =
            [cmd |-> "cancel", user_id |-> user_id, status_msg |-> "none",
             at |-> IF user_id \in active_tasks THEN "cancelled" ELSE "nothing"]]
    /\ active_tasks' = active_tasks \ {user_id}
    /\ set_by' = [set_by EXCEPT ![user_id] = {}]
    /\ cancelled' = IF user_id \in active_tasks
                    THEN cancelled \cup RunningLoops(user_id)
                    ELSE cancelled
    /\ UNCHANGED user_client
    /\ UNCHANGED <<cloneVars, loginVars, helperVars>>

NextBot ==
    \/ \E h \in Handlers, cmd \in {"clone", "crange"}, u \in Users :
            ReceiveClone(h, cmd, u)
    \/ \E h \in Handlers : PrechecksFail(h)
    \/ \E h \in Handlers : StartLoop(h)
    \/ \E h \in Handlers : ProgressCallback(h)
    \/ \E h \in Handlers : LoopReturns(h)
    \/ \E h \in Handlers, u \in Users : Cancel(h, u)

SpecBot == InitBot /\ [][NextBot]_vars

\* ------------------------------------------------------------------------
\* Properties of the task registry (checked under SpecBot)
\* ------------------------------------------------------------------------

\* C6: a /clone or /crange command that arrives while the same user's marker
\* is in active_tasks is rejected: the step leaves active_tasks and every
\* other handler as they are, and the rejected handler never starts a loop.
C6_SecondCloneRejected ==
    [][\A h \in Handlers :
        /\ (/\ handler[h].at = "idle"
            /\ handler'[h].cmd \in {"clone", "crange"}
            /\ handler'[h].user_id \in active_tasks)
           => /\ handler'[h].at = "rejected"
              /\ active_tasks' = active_tasks
              /\ \A g \in Handlers \ {h} : handler'[g] = handler[g]
              /\ \A u \in Users : RunningLoops(u)' = RunningLoops(u)
        /\ handler[h].at = "rejected" => handler'[h] = handler[h]]_vars

\* C6 witness: a command rejected while the same user's job is running.
C6_Witness ==
    \E h \in Handlers, g \in Handlers :
        /\ handler[h].at = "rejected"
        /\ handler[g].at = "running"
        /\ handler[g].user_id = handler[h].user_id
        /\ handler[h].user_id \in active_tasks

\* C7: at any time at most one replication loop is running for a user.
C7_AtMostOneLoopPerUser ==
    \A u \in Users : Cardinality(RunningLoops(u)) <= 1

\* C33: after a /cancel has deleted the user's marker while a job is
\* running, no later progress callback of that job updates its status
\* message; the loop itself keeps running until it returns.
C33_CancelledJobEmitsNothing ==
    [][\A h \in Handlers :
        (h \in cancelled /\ handler[h].at = "running")
        => \/ handler'[h] = handler[h]
           \/ handler'[h].at = "reported"]_vars

\* C38: a user's marker leaves active_tasks only by a /cancel of that user
\* or by the return of a job that set it; the return of a job that was
\* cancelled does not remove the marker a later job has set.
C38_MarkerRemovedOnlyByOwner ==
    [][\A u \in Users :
        (u \in active_tasks /\ u \notin active_tasks')
        => \/ \E h \in Handlers :
                /\ handler[h].at = "idle"
                /\ handler'[h].cmd = "cancel"
                /\ handler'[h].user_id = u
           \/ \E h \in set_by[u] :
                /\ handler[h].at = "running"
                /\ handler'[h].at = "reported"]_vars

\* ------------------------------------------------------------------------
\* A job of the bot from its start to the removal of the marker
\* ------------------------------------------------------------------------

\* The calls the bot makes: clone_command calls clone_channel without
\* start_from_message_id and limit, crange_command calls clone_range with
\* the ids of two message links, in the order it has put them; both pass a
\* progress callback.
BotJobs ==
    {j \in Jobs :
        /\ j.progress_callback
        /\ j.mode = "channel" => (j.start_from_message_id = 0 /\ j.limit = 0)
        /\ j.mode = "range" => (1 <= j.a /\ j.a <= j.b /\ j.b <= MaxId)}

\* The handler of the first command has set the user's marker and called
\* clone_channel or clone_range, which is about to start on a source whose
\* ids are all in use.  No document of the channels collection exists
\* (nothing in the bot creates one).
InitJob ==
    /\ LoginIdle
    /\ HelpersIdle
    /\ history \in [MessageIds -> Kinds]
    /\ channels = -1
    /\ job \in BotJobs
    /\ messages = <<>>
    /\ i = 0
    /\ stats = EmptyStats
    /\ pc = "start"
    /\ floods = 0
    /\ calls = <<>>
    /\ tally = <<>>
    /\ progress = <<>>
    /\ sleeps = <<>>
    /\ report = NoReport
    /\ active_tasks = {1}
    /\ handler = [h \in Handlers |->
            IF h = 1
            THEN [cmd |-> IF job.mode = "channel" THEN "clone" ELSE "crange",
                  user_id |-> 1, at |-> "running", status_msg |-> "starting"]
            ELSE [cmd |-> "none", user_id |-> 0, at |-> "idle", status_msg |-> "none"]]
    /\ set_by = [u \in Users |-> IF u = 1 THEN {1} ELSE {}]
    /\ cancelled = {}
    /\ user_client = [h \in Handlers |-> 0]

\* stats = await forwarder.clone_channel(...) returns in the handler: the
\* marker is popped and the report sent.
JobReturns ==
    /\ pc = "done"
    /\ report.returned
    /\ LoopReturns(1)

NextJob ==
    \/ NextClone
    \/ JobReturns
    \/ \E u \in Users : Cancel(2, u)

\* The event loop resumes a coroutine whose awaited call has returned: every
\* remote call of the engine returns, at most MaxFlood of them with a
\* rate-limit signal, and the handler is resumed when the engine returns.
SpecJob ==
    /\ InitJob
    /\ [][NextJob]_vars
    /\ WF_vars(NextClone)
    /\ WF_vars(JobReturns)

\* C36: every started clone job eventually returns a report to its handler,
\* and from then on the user's marker set for it is no longer in
\* active_tasks.
C36_JobReturnsAndMarkerRemoved ==
    (handler[1].at = "running")
        ~> (/\ report.returned
            /\ handler[1].at = "reported"
            /\ handler[1].user_id \notin active_tasks)

\* C36 witness: a job that met a rate-limit signal, copied a message, ran to
\* its end and returned; the marker is gone.
C36_Witness ==
    /\ pc = "done"
    /\ floods >= 1
    /\ report.returned
    /\ ~report.aborted
    /\ report.success >= 1
    /\ handler[1].at = "reported"
    /\ active_tasks = {}
    /\ \A h \in Handlers : handler[h].cmd # "cancel"

\* ------------------------------------------------------------------------
\* The session store (database.py, the users collection)
\* ------------------------------------------------------------------------

\* The position of the first document of the collection with this user_id
\* (0 when there is none): the document update_one and find_one act on.
FirstDoc(coll, user_id) ==
    IF \E k \in 1..Len(coll) : coll[k].user_id = user_id
    THEN CHOOSE k \in 1..Len(coll) :
            /\ coll[k].user_id = user_id
            /\ \A j \in 1..(k - 1) : coll[j].user_id # user_id
    ELSE 0

\* Database.save_user_session: update_one({"user_id": ...}, {"$set": ...},
\* upsert=True); when the store raises, the error is logged and False is
\* returned, the collection being left as it was.
save_user_session(coll, user_id, phone_number, session_string, store_ok) ==
    LET doc == [user_id |-> user_id, phone_number |-> phone_number,
                session_string |-> session_string, is_active |-> TRUE]
        k   == FirstDoc(coll, user_id)
    IN  IF ~store_ok THEN coll
        ELSE IF k = 0 THEN Append(coll, doc)
        ELSE [coll EXCEPT ![k] = doc]

\* Database.delete_user_session: update_one({"user_id": ...},
\* {"$set": {"is_active": False}}), with the same swallowed failure.
delete_user_session(coll, user_id, store_ok) ==
    LET k == FirstDoc(coll, user_id)
    IN  IF ~store_ok \/ k = 0 THEN coll
        ELSE [coll EXCEPT ![k].is_active = FALSE]

\* Database.get_user_session: find_one({"user_id": ..., "is_active": True});
\* the position of the document found, 0 for None (also when the store
\* raises: the error is logged and None returned).
get_user_session(coll, user_id, store_ok) ==
    IF store_ok /\ \E k \in 1..Len(coll) : coll[k].user_id = user_id /\ coll[k].is_active
    THEN CHOOSE k \in 1..Len(coll) :
            /\ coll[k].user_id = user_id /\ coll[k].is_active
            /\ \A j \in 1..(k - 1) : ~(coll[j].user_id = user_id /\ coll[j].is_active)
    ELSE 0

\* ------------------------------------------------------------------------
\* The user client manager (user_client.py)
\* ------------------------------------------------------------------------

\* Two phone numbers, as login_command hands them over (with the leading "+").
Phones == {"+15550001", "+15550002"}

Clients == 1..MaxClients

InitLogin ==
    /\ CloneOff
    /\ BotIdle
    /\ LoginIdle
    /\ HelpersIdle

ErrNoPendingOtp == "No pending login found. Please start with /login first."
ErrNoPending2fa == "No pending login found."
ErrNot2faStep   == "2FA not required at this step."
ErrInvalidOtp   == "Invalid OTP code. Please try again."
ErrOtpExpired   == "OTP code expired. Please start login again with /login."
ErrInvalid2fa   == "Invalid 2FA password. Please try again."
ErrFlood        == "Too many attempts. Please wait."
ErrOther        == "str(e)"

\* The dictionary an operation returns.
Result(op, user_id, success, step, error) ==
    [op |-> op, user_id |-> user_id, success |-> success, step |-> step, error |-> error]

\* The session string a client exports: it identifies the client's own
\* authorization.
export_session_string(client) == client

\* What connect and send_code can do in initiate_login.
InitiateOutcomes == {"ok", "connect_error", "flood", "error"}

\* initiate_login started in the manager state m (its next_client,
\* client_state and pending_logins) with connect / send_code outcome o: a new
\* Client, connect, send_code, and the record stored under the user (in place
\* of any record already there).  The state it leaves, and what it returns.
InitiateLogin(m, user_id, phone_number, o) ==
    LET client == m.next_client + 1
    IN  [next_client |-> client,
         client_state |-> [m.client_state EXCEPT ![client] =
                IF o = "connect_error" THEN "new" ELSE "connected"],
         pending_logins |->
                IF o = "ok"
                THEN [m.pending_logins EXCEPT ![user_id] =
                        [client |-> client, phone_number |-> phone_number,
                         phone_code_hash |-> client, step |-> "otp"]]
                ELSE m.pending_logins,
         result |->
                IF o = "ok"
                THEN Result("initiate_login", user_id, TRUE, "otp", "")
                ELSE Result("initiate_login", user_id, FALSE, "",
                            IF o = "flood" THEN ErrFlood ELSE ErrOther)]

\* UserClientManager.initiate_login, called on the manager as it is.
initiate_login(user_id, phone_number) ==
    /\ next_client < MaxClients
    /\ \E o \in InitiateOutcomes :
        LET r == InitiateLogin([next_client |-> next_client, client_state |-> client_state,
                                pending_logins |-> pending_logins],
                               user_id, phone_number, o)
        IN  /\ next_client' = r.next_client
            /\ client_state' = r.client_state
            /\ pending_logins' = r.pending_logins
            /\ result' = r.result
    /\ UNCHANGED <<active_clients, users>>
    /\ UNCHANGED getting
    /\ UNCHANGED <<cloneVars, botVars, helperVars>>

\* The tail shared by verify_otp and verify_2fa once the platform accepted:
\* export_session_string, save_user_session (its result is not looked at),
\* active_clients[user_id] = client, del pending_logins[user_id].
Authenticated(op, user_id, export_ok, store_ok) ==
    LET rec == pending_logins[user_id]
    IN  IF ~export_ok
        THEN /\ result' = Result(op, user_id, FALSE, "", ErrOther)
             /\ UNCHANGED <<pending_logins, active_clients, users>>
        ELSE /\ users' = save_user_session(users, user_id, rec.phone_number,
                                           export_session_string(rec.client), store_ok)
             /\ active_clients' = [active_clients EXCEPT ![user_id] = rec.client]
             /\ pending_logins' = [pending_logins EXCEPT ![user_id] = NoPending]
             /\ result' = Result(op, user_id, TRUE, "", "")

\* What client.sign_in can do in verify_otp.
SignInOutcomes == {"ok", "password_needed", "invalid", "expired", "error"}

\* A mutant of PasswordNeeded: the record is dropped when the platform asks
\* for the password.
PasswordNeededDropsRecord(rec) == NoPending

\* verify_otp, except SessionPasswordNeeded: the record's step becomes "2fa".
PasswordNeeded(rec) == [rec EXCEPT !.step = "2fa"]

\* A mutant of CodeExpired: the record stays when the code has expired.
CodeExpiredKeepsRecord(rec) == rec

\* verify_otp, except PhoneCodeExpired: del self.pending_logins[user_id]
CodeExpired(rec) == NoPending

\* A mutant of InvalidCode: an invalid code discards the attempt.
InvalidCodeDropsRecord(rec) == NoPending

\* verify_otp, except PhoneCodeInvalid: return the error; the record is
\* left as it is.
InvalidCode(rec) == rec

\* verify_otp.
verify_otp(user_id) ==
    /\ \E o \in SignInOutcomes, export_ok \in BOOLEAN, store_ok \in BOOLEAN :
        /\ (o # "ok") => (export_ok /\ store_ok)
        /\ (~export_ok) => store_ok
        /\ IF pending_logins[user_id] = NoPending
           THEN /\ o = "error"
                /\ result' = Result("verify_otp", user_id, FALSE, "", ErrNoPendingOtp)
                /\ UNCHANGED <<pending_logins, active_clients, users>>
           ELSE CASE o = "ok" ->
                    /\ Authenticated("verify_otp", user_id, export_ok, store_ok)
                 [] o = "password_needed" ->
                    /\ pending_logins' = [pending_logins EXCEPT ![user_id] = PasswordNeeded(@)]
                    /\ result' = Result("verify_otp", user_id, TRUE, "2fa", "")
                    /\ UNCHANGED <<active_clients, users>>
                 [] o = "invalid" ->
                    /\ pending_logins' = [pending_logins EXCEPT ![user_id] = InvalidCode(@)]
                    /\ result' = Result("verify_otp", user_id, FALSE, "", ErrInvalidOtp)
                    /\ UNCHANGED <<active_clients, users>>
                 [] o = "expired" ->
                    /\ pending_logins' = [pending_logins EXCEPT ![user_id] = CodeExpired(@)]
                    /\ result' = Result("verify_otp", user_id, FALSE, "", ErrOtpExpired)
                    /\ UNCHANGED <<active_clients, users>>
                 [] o = "error" ->
                    /\ result' = Result("verify_otp", user_id, FALSE, "", ErrOther)
                    /\ UNCHANGED <<pending_logins, active_clients, users>>
    /\ UNCHANGED <<client_state, next_client>>
    /\ UNCHANGED getting
    /\ UNCHANGED <<cloneVars, botVars, helperVars>>

\* What client.check_password can do in verify_2fa.
PasswordOutcomes == {"ok", "bad_request", "error"}

\* A mutant of InvalidPassword: a wrong password discards the attempt.
InvalidPasswordDropsRecord(rec) == NoPending

\* verify_2fa, except BadRequest: the record is left as it is.
InvalidPassword(rec) == rec

\* A mutant of Not2faStep: the step of the record is not looked at.
StepNotLookedAt(rec) == FALSE

\* verify_2fa: if login_data.get("step") != "2fa"
Not2faStep(rec) == rec.step # "2fa"

\* verify_2fa.
verify_2fa(user_id) ==
    /\ \E o \in PasswordOutcomes, export_ok \in BOOLEAN, store_ok \in BOOLEAN :
        /\ (o # "ok") => (export_ok /\ store_ok)
        /\ (~export_ok) => store_ok
        /\ IF pending_logins[user_id] = NoPending
           THEN /\ o = "error"
                /\ result' = Result("verify_2fa", user_id, FALSE, "", ErrNoPending2fa)
                /\ UNCHANGED <<pending_logins, active_clients, users>>
           ELSE IF Not2faStep(pending_logins[user_id])
           THEN /\ o = "error"
                /\ result' = Result("verify_2fa", user_id, FALSE, "", ErrNot2faStep)
                /\ UNCHANGED <<pending_logins, active_clients, users>>
           ELSE CASE o = "ok" ->
                    /\ Authenticated("verify_2fa", user_id, export_ok, store_ok)
                 [] o = "bad_request" ->
                    /\ pending_logins' = [pending_logins EXCEPT ![user_id] = InvalidPassword(@)]
                    /\ result' = Result("verify_2fa", user_id, FALSE, "", ErrInvalid2fa)
                    /\ UNCHANGED <<active_clients, users>>
                 [] o = "error" ->
                    /\ result' = Result("verify_2fa", user_id, FALSE, "", ErrOther)
                    /\ UNCHANGED <<pending_logins, active_clients, users>>
    /\ UNCHANGED <<client_state, next_client>>
    /\ UNCHANGED getting
    /\ UNCHANGED <<cloneVars, botVars, helperVars>>

\* logout: the cached client is stopped and evicted, the session deleted;
\* when stop raises, the failure is returned and nothing else is done.
logout(user_id) ==
    /\ \E stop_ok \in BOOLEAN, store_ok \in BOOLEAN :
        LET client == active_clients[user_id]
        IN  /\ (client = 0) => stop_ok
            /\ (~stop_ok) => store_ok
            /\ IF client # 0 /\ ~stop_ok
               THEN /\ result' = Result("logout", user_id, FALSE, "", ErrOther)
                    /\ UNCHANGED <<active_clients, client_state, users>>
               ELSE /\ client_state' = IF client # 0
                                       THEN [client_state EXCEPT ![client] = "stopped"]
                                       ELSE client_state
                    /\ active_clients' = [active_clients EXCEPT ![user_id] = 0]
                    /\ users' = delete_user_session(users, user_id, store_ok)
                    /\ result' = Result("logout", user_id, TRUE, "", "")
    /\ UNCHANGED <<pending_logins, next_client>>
    /\ UNCHANGED getting
    /\ UNCHANGED <<cloneVars, botVars, helperVars>>

\* The platform or the network closes the connection of a cached client:
\* client.is_connected becomes False.
ConnectionLost(user_id) ==
    /\ active_clients[user_id] # 0
    /\ client_state[active_clients[user_id]] = "connected"
    /\ client_state' = [client_state EXCEPT ![active_clients[user_id]] = "disconnected"]
    /\ UNCHANGED <<pending_logins, active_clients, next_client, users, result>>
    /\ UNCHANGED getting
    /\ UNCHANGED <<cloneVars, botVars, helperVars>>

\* A mutant of CachedUsable: a cached client is returned whatever its
\* connection.
CachedAlways(m, user_id) ==
    m.active_clients[user_id] # 0

\* get_client: if user_id in self.active_clients, and client.is_connected.
CachedUsable(m, user_id) ==
    /\ m.active_clients[user_id] # 0
    /\ m.client_state[m.active_clients[user_id]] = "connected"

\* get_client in the manager state m (active_clients, client_state,
\* next_client) over the collection coll: the cached client when it is
\* connected; otherwise get_user_session and, for a document with a session
\* string, start_client_from_session (a new Client, start, and on success the
\* entry in active_clients; None when the construction or the start raises).
\* The client returned (0 for None), whether the store was read, and the state
\* left.
GetClient(m, coll, user_id, store_ok, start_ok) ==
    IF CachedUsable(m, user_id)
    THEN [client |-> m.active_clients[user_id], store_read |-> FALSE,
          active_clients |-> m.active_clients, client_state |-> m.client_state,
          next_client |-> m.next_client]
    ELSE LET k == get_user_session(coll, user_id, store_ok)
             client == m.next_client + 1
         IN  IF k = 0
             THEN [client |-> 0, store_read |-> TRUE,
                   active_clients |-> m.active_clients, client_state |-> m.client_state,
                   next_client |-> m.next_client]
             ELSE IF start_ok
             THEN [client |-> client, store_read |-> TRUE,
                   active_clients |-> [m.active_clients EXCEPT ![user_id] = client],
                   client_state |-> [m.client_state EXCEPT ![client] = "connected"],
                   next_client |-> client]
             ELSE [client |-> 0, store_read |-> TRUE,
                   active_clients |-> m.active_clients, client_state |-> m.client_state,
                   next_client |-> client]

\* The manager state get_client and initiate_login work on.
Manager ==
    [active_clients |-> active_clients, client_state |-> client_state,
     next_client |-> next_client, pending_logins |-> pending_logins]

\* The outcomes of the store read and of the client start that get_client
\* can meet in the manager state m; the ones it does not reach are fixed.
GetClientCases(m, coll, user_id) ==
    {c \in [store_ok : BOOLEAN, start_ok : BOOLEAN] :
        /\ CachedUsable(m, user_id) => (c.store_ok /\ c.start_ok)
        /\ (get_user_session(coll, user_id, c.store_ok) = 0) => c.start_ok}

\* A get_client that starts a client creates one more Client object.
GetClientInBudget(m, coll, user_id, c) ==
    GetClient(m, coll, user_id, c.store_ok, c.start_ok).next_client <= MaxClients

\* UserClientManager.get_client, as status_command and the clone commands
\* call it.
get_client(user_id) ==
    /\ \E c \in GetClientCases(Manager, users, user_id) :
        LET g == GetClient(Manager, users, user_id, c.store_ok, c.start_ok)
        IN  /\ GetClientInBudget(Manager, users, user_id, c)
            /\ active_clients' = g.active_clients
            /\ client_state' = g.client_state
            /\ next_client' = g.next_client
            /\ result' = [op |-> "get_client", user_id |-> user_id,
                          success |-> g.client # 0, step |-> "", error |-> "",
                          client |-> g.client, store_read |-> g.store_read]
    /\ UNCHANGED <<pending_logins, users>>
    /\ UNCHANGED getting
    /\ UNCHANGED <<cloneVars, botVars, helperVars>>

ErrAlreadyLoggedIn == "You're already logged in! Use /logout to logout first."

\* login_command: get_client, the refusal when it returns a client, and
\* initiate_login otherwise.
login_command(user_id, phone_number) ==
    /\ \E c \in GetClientCases(Manager, users, user_id), o \in InitiateOutcomes :
        LET g == GetClient(Manager, users, user_id, c.store_ok, c.start_ok)
            r == InitiateLogin([next_client |-> g.next_client,
                                client_state |-> g.client_state,
                                pending_logins |-> pending_logins],
                               user_id, phone_number, o)
        IN  /\ GetClientInBudget(Manager, users, user_id, c)
            /\ active_clients' = g.active_clients
            /\ IF g.client # 0
               THEN /\ o = "ok"
                    /\ client_state' = g.client_state
                    /\ next_client' = g.next_client
                    /\ result' = Result("login_command", user_id, FALSE, "", ErrAlreadyLoggedIn)
                    /\ UNCHANGED pending_logins
               ELSE /\ g.next_client < MaxClients
                    /\ client_state' = r.client_state
                    /\ next_client' = r.next_client
                    /\ pending_logins' = r.pending_logins
                    /\ result' = r.result
    /\ UNCHANGED users
    /\ UNCHANGED getting
    /\ UNCHANGED <<cloneVars, botVars, helperVars>>

\* A mutant of disconnect: the connection is left open.
disconnect_omitted(cs, client) == cs

\* client.disconnect(), when it does not raise.
disconnect(cs, client) == [cs EXCEPT ![client] = "disconnected"]

\* cancel_login: the record's client is disconnected and the record deleted;
\* nothing is done, and None returned, when the user has no record.  When
\* disconnect raises, the exception leaves cancel_login with the record kept.
cancel_login(user_id) ==
    /\ \E disconnect_ok \in BOOLEAN :
        LET rec == pending_logins[user_id]
        IN  /\ (rec = NoPending) => disconnect_ok
            /\ IF rec = NoPending
               THEN /\ result' = [op |-> "cancel_login", user_id |-> user_id,
                                  success |-> TRUE, step |-> "", error |-> "",
                                  returned |-> "None"]
                    /\ UNCHANGED <<pending_logins, client_state>>
               ELSE IF disconnect_ok
               THEN /\ client_state' = disconnect(client_state, rec.client)
                    /\ pending_logins' = [pending_logins EXCEPT ![user_id] = NoPending]
                    /\ result' = [op |-> "cancel_login", user_id |-> user_id,
                                  success |-> TRUE, step |-> "", error |-> "",
                                  returned |-> "None"]
               ELSE /\ result' = [op |-> "cancel_login", user_id |-> user_id,
                                  success |-> FALSE, step |-> "", error |-> ErrOther,
                                  returned |-> "raised"]
                    /\ UNCHANGED <<pending_logins, client_state>>
    /\ UNCHANGED <<active_clients, next_client, users>>
    /\ UNCHANGED getting
    /\ UNCHANGED <<cloneVars, botVars, helperVars>>

\* A mutant of AfterStops: a client whose stop failed stays cached.
AfterStopsKeepFailed(cached, stop_ok) ==
    [u \in DOMAIN cached |-> IF stop_ok[u] THEN 0 ELSE cached[u]]

\* stop_all_clients: self.active_clients.clear(), after the loop that stops
\* each client and logs a failing stop.
AfterStops(cached, stop_ok) == [u \in DOMAIN cached |-> 0]

\* stop_all_clients: stop is awaited on every cached client and disconnect on
\* the client of every record, a failure of either being caught; both
\* dictionaries are cleared.  It returns None.
stop_all_clients ==
    /\ \E stop_ok \in [Accounts -> BOOLEAN], disconnect_ok \in [Accounts -> BOOLEAN] :
        LET cached  == {u \in Accounts : active_clients[u] # 0}
            pending == {u \in Accounts : pending_logins[u] # NoPending}
            stopped == {active_clients[u] : u \in {v \in cached : stop_ok[v]}}
            closed  == {pending_logins[u].client : u \in {v \in pending : disconnect_ok[v]}}
        IN  /\ \A u \in Accounts \ cached : stop_ok[u]
            /\ \A u \in Accounts \ pending : disconnect_ok[u]
            /\ client_state' = [c \in DOMAIN client_state |->
                    IF c \in stopped THEN "stopped"
                    ELSE IF c \in closed THEN disconnect(client_state, c)[c]
                    ELSE client_state[c]]
            /\ active_clients' = AfterStops(active_clients, stop_ok)
            /\ pending_logins' = [u \in Accounts |-> NoPending]
            /\ result' = [op |-> "stop_all_clients", user_id |-> 0, success |-> TRUE,
                          step |-> "", error |-> "", returned |-> "None",
                          stop_awaited |-> {active_clients[u] : u \in cached},
                          disconnect_awaited |-> {pending_logins[u].client : u \in pending}]
    /\ UNCHANGED <<next_client, users>>
    /\ UNCHANGED getting
    /\ UNCHANGED <<cloneVars, botVars, helperVars>>

\* The manager as the bot drives it: /login, /otp, /2fa, /logout, the
\* get_client of /status and of the clone commands, the stop_all_clients of
\* the shutdown, and connections lost.
NextLogin ==
    \/ \E u \in Accounts, p \in Phones : login_command(u, p)
    \/ \E u \in Accounts : verify_otp(u)
    \/ \E u \in Accounts : verify_2fa(u)
    \/ \E u \in Accounts : logout(u)
    \/ \E u \in Accounts : get_client(u)
    \/ \E u \in Accounts : ConnectionLost(u)
    \/ stop_all_clients

SpecLogin == InitLogin /\ [][NextLogin]_vars

\* The manager driven through all of its methods, the ones the bot never
\* calls (cancel_login, initiate_login without login_command's check)
\* included.
NextManager ==
    \/ NextLogin
    \/ \E u \in Accounts, p \in Phones : initiate_login(u, p)
    \/ \E u \in Accounts : cancel_login(u)

SpecManager == InitLogin /\ [][NextManager]_vars

\* ------------------------------------------------------------------------
\* Properties of the login state machine (checked under SpecLogin)
\* ------------------------------------------------------------------------

\* The documents of the collection that belong to the user.
DocsOf(user_id) == {k \in 1..Len(users) : users[k].user_id = user_id}

\* verify_2fa is accepted and returns success.
Verify2faSucceeds(u) ==
    /\ verify_2fa(u)
    /\ result' = Result("verify_2fa", u, TRUE, "", "")

\* C8: when verify_otp meets the second-factor requirement the in-flight
\* record is kept, with its connection, phone number and challenge token, in
\* the "2fa" step, the step verify_2fa accepts; when verify_2fa then fails
\* with an invalid password the record is left exactly as it was, in the
\* "2fa" step with its connection still connected, and a verify_2fa that
\* returns success is possible from there.
C8_SecondFactorRecordKept ==
    /\ [][\A u \in Accounts :
        /\ (/\ result'.op = "verify_otp" /\ result'.user_id = u
            /\ result'.success /\ result'.step = "2fa")
           => /\ pending_logins[u] # NoPending
              /\ pending_logins'[u] = [pending_logins[u] EXCEPT !.step = "2fa"]
              /\ client_state'[pending_logins'[u].client] = "connected"
        /\ (/\ result'.op = "verify_2fa" /\ result'.user_id = u
            /\ result'.error = ErrInvalid2fa)
           => /\ pending_logins[u] # NoPending
              /\ pending_logins[u].step = "2fa"
              /\ pending_logins'[u] = pending_logins[u]
              /\ client_state'[pending_logins'[u].client] = "connected"]_vars
    /\ [](\A u \in Accounts :
            (result.op = "verify_2fa" /\ result.user_id = u /\ result.error = ErrInvalid2fa)
            => ENABLED Verify2faSucceeds(u))

\* C8 witness: verify_2fa has just failed with an invalid password, and the
\* record is in the "2fa" step with its connection.
C8_Witness ==
    \E u \in Accounts :
        /\ result.op = "verify_2fa"
        /\ result.user_id = u
        /\ result.error = ErrInvalid2fa
        /\ pending_logins[u] # NoPending
        /\ pending_logins[u].step = "2fa"
        /\ client_state[pending_logins[u].client] = "connected"

\* An authentication of user u returns success in this step (the user has a
\* record before it, and what is returned is a verification's final success).
AuthenticationSucceeds(u) ==
    /\ pending_logins[u] # NoPending
    /\ result'.op \in {"verify_otp", "verify_2fa"}
    /\ result'.user_id = u
    /\ result'.success
    /\ result'.step = ""

\* C9: when an authentication returns success for a user whose earlier
\* authentication left a document in the collection, the collection then
\* holds exactly one document of that user, and it carries the phone number
\* and the session of the authentication that has just succeeded.
C9_SecondSessionSupersedes ==
    [][\A u \in Accounts :
        (AuthenticationSucceeds(u) /\ DocsOf(u) # {})
        => /\ Cardinality(DocsOf(u)') = 1
           /\ \A k \in DocsOf(u)' :
                /\ users'[k].phone_number = pending_logins[u].phone_number
                /\ users'[k].session_string = export_session_string(pending_logins[u].client)]_vars

\* C12: a login request for a user who has an in-flight record is rejected
\* and leaves the record (connection, phone number, challenge token, step)
\* as it was.
C12_InFlightLoginRejected ==
    [][\A u \in Accounts :
        (/\ pending_logins[u] # NoPending
         /\ result'.op \in {"initiate_login", "login_command"}
         /\ result'.user_id = u
         /\ (next_client' # next_client \/ result' # result))
        => /\ ~result'.success
           /\ pending_logins'[u] = pending_logins[u]]_vars

\* C13: when verify_otp or verify_2fa returns success, the collection holds
\* an active document of the user with the session exported from the
\* attempt's connection, active_clients maps the user to that connection, and
\* the user has no record in pending_logins.
C13_SuccessPublishesSession ==
    [][\A u \in Accounts :
        AuthenticationSucceeds(u)
        => /\ \E k \in DocsOf(u)' :
                /\ users'[k].is_active
                /\ users'[k].session_string = export_session_string(pending_logins[u].client)
           /\ active_clients'[u] = pending_logins[u].client
           /\ pending_logins'[u] = NoPending]_vars

\* This step is a call of the manager operation op for user u: it leaves the
\* operation's result, and it is not a ConnectionLost step under an old result.
ByOperation(op, u) ==
    /\ result'.op = op
    /\ result'.user_id = u
    /\ ~(/\ result' = result
         /\ client_state' # client_state
         /\ UNCHANGED <<pending_logins, active_clients, next_client, users>>)

\* The state of the manager and of the store is left as it was.
ManagerUnchanged ==
    UNCHANGED <<pending_logins, active_clients, client_state, next_client, users>>

\* C14: verify_otp, verify_2fa and cancel_login called for a user who has no
\* record in pending_logins each report the no-pending-login failure and
\* change nothing.
C14_NoPendingFails ==
    [][\A u \in Accounts : \A op \in {"verify_otp", "verify_2fa", "cancel_login"} :
        (ByOperation(op, u) /\ pending_logins[u] = NoPending)
        => /\ ~result'.success
           /\ result'.error \in {ErrNoPendingOtp, ErrNoPending2fa}
           /\ ManagerUnchanged]_vars

\* The collection holds an active document of the user.
HoldsActiveSession(u) ==
    \E k \in DocsOf(u) : users[k].is_active

\* C15: get_client returns the cached client, without reading the store and
\* without changing anything, when one is cached and connected.  Otherwise it
\* reads the store, and it returns a client exactly when the store holds an
\* active session of the user and the client started from it starts; that
\* client is a new one and is the user's entry of active_clients afterwards.
\* In every other case it returns None and leaves active_clients as it was.
C15_GetClient ==
    [][\A u \in Accounts :
        ByOperation("get_client", u) =>
            IF active_clients[u] # 0 /\ client_state[active_clients[u]] = "connected"
            THEN /\ result'.client = active_clients[u]
                 /\ ~result'.store_read
                 /\ ManagerUnchanged
            ELSE LET started == /\ next_client' = next_client + 1
                                /\ client_state'[next_client'] = "connected"
                 IN  /\ result'.store_read
                     /\ users' = users
                     /\ pending_logins' = pending_logins
                     /\ (result'.client # 0) <=> (HoldsActiveSession(u) /\ started)
                     /\ (result'.client # 0) =>
                            /\ result'.client = next_client'
                            /\ active_clients'[u] = result'.client
                     /\ (result'.client = 0) => active_clients' = active_clients]_vars

\* C15 witness: the cached client has lost its connection and get_client has
\* returned a second client, started from the stored session and cached.
C15_Witness ==
    \E u \in Accounts :
        /\ result.op = "get_client"
        /\ result.user_id = u
        /\ result.store_read
        /\ result.client = 2
        /\ active_clients[u] = 2
        /\ client_state[1] = "disconnected"
        /\ client_state[2] = "connected"
        /\ HoldsActiveSession(u)

\* C16: a logout that returns success has stopped and evicted the cached
\* client if there was one and has deleted the persisted session, so that a
\* get_client called next returns None whatever the store read and the
\* client start do; a second logout then changes nothing and returns the
\* same success.
C16_LogoutDeletesSession ==
    [][\A u \in Accounts :
        (ByOperation("logout", u) /\ result'.success)
        => LET m == [active_clients |-> active_clients', client_state |-> client_state',
                     next_client |-> next_client', pending_logins |-> pending_logins']
           IN  /\ active_clients'[u] = 0
               /\ active_clients[u] # 0 => client_state'[active_clients[u]] = "stopped"
               /\ ~HoldsActiveSession(u)'
               /\ \A store_ok \in BOOLEAN, start_ok \in BOOLEAN :
                    GetClient(m, users', u, store_ok, start_ok).client = 0
               /\ (result = result' /\ active_clients[u] = 0) => ManagerUnchanged]_vars

\* C20: verify_otp called while the user's in-flight record is in the 2fa
\* step is rejected and changes neither the record nor anything else of the
\* manager and the store.
C20_OtpOnlyInCodeSentStep ==
    [][\A u \in Accounts :
        (/\ ByOperation("verify_otp", u)
         /\ pending_logins[u] # NoPending
         /\ pending_logins[u].step = "2fa")
        => /\ ~result'.success
           /\ ManagerUnchanged]_vars

\* C21: verify_2fa called while the user's in-flight record is in the code
\* step ("otp") is rejected with the answer of the step test, which precedes
\* every call on the client, and changes neither the record nor anything else
\* of the manager and the store.
C21_PasswordOnlyIn2faStep ==
    [][\A u \in Accounts :
        (/\ ByOperation("verify_2fa", u)
         /\ pending_logins[u] # NoPending
         /\ pending_logins[u].step = "otp")
        => /\ ~result'.success
           /\ result'.error = ErrNot2faStep
           /\ ManagerUnchanged]_vars

\* C21 witness: verify_2fa was rejected for a record in the code step.
C21_Witness ==
    \E u \in Accounts :
        /\ result.op = "verify_2fa"
        /\ result.user_id = u
        /\ result.error = ErrNot2faStep
        /\ pending_logins[u] # NoPending
        /\ pending_logins[u].step = "otp"

\* C22: when verify_otp reports the code as expired the user's record is
\* removed; verify_otp and verify_2fa for a user without a record fail with
\* the no-pending-login answer and create none; and a record appears only by
\* an initiate_login that returned success.
C22_ExpiredCodeEndsAttempt ==
    /\ [][\A u \in Accounts :
            (ByOperation("verify_otp", u) /\ result'.error = ErrOtpExpired)
            => pending_logins'[u] = NoPending]_vars
    /\ [][\A u \in Accounts : \A op \in {"verify_otp", "verify_2fa"} :
            (ByOperation(op, u) /\ pending_logins[u] = NoPending)
            => /\ ~result'.success
               /\ result'.error = (IF op = "verify_otp" THEN ErrNoPendingOtp
                                   ELSE ErrNoPending2fa)
               /\ pending_logins'[u] = NoPending]_vars
    /\ [][\A u \in Accounts :
            (pending_logins[u] = NoPending /\ pending_logins'[u] # NoPending)
            => /\ result'.op = "initiate_login"
               /\ result'.user_id = u
               /\ result'.success]_vars

\* C22 witness: verify_otp has just reported the code as expired.
C22_Witness ==
    \E u \in Accounts :
        /\ result.op = "verify_otp"
        /\ result.user_id = u
        /\ result.error = ErrOtpExpired
        /\ pending_logins[u] = NoPending

C24_NoConnectionLeftOpen ==
    \A c \in 1..next_client :
        client_state[c] = "connected" =>
            \E u \in Accounts :
                \/ active_clients[u] = c
                \/ pending_logins[u] # NoPending /\ pending_logins[u].client = c

\* C25: verify_otp or verify_2fa that reached save_user_session and whose
\* write failed (the collection is as a failed write leaves it, not as a
\* successful one would) returns a failure.
C25_FailedSaveFailsLogin ==
    [][\A u \in Accounts : \A op \in {"verify_otp", "verify_2fa"} :
        (/\ ByOperation(op, u)
         /\ pending_logins[u] # NoPending
         /\ result'.step = ""
         /\ active_clients'[u] = pending_logins[u].client
         /\ users' = save_user_session(users, u, pending_logins[u].phone_number,
                        export_session_string(pending_logins[u].client), FALSE)
         /\ users' # save_user_session(users, u, pending_logins[u].phone_number,
                        export_session_string(pending_logins[u].client), TRUE))
        => ~result'.success]_vars

VerifyOtpSucceeds(u) ==
    /\ verify_otp(u)
    /\ result' = Result("verify_otp", u, TRUE, "", "")

\* C40: when verify_otp fails because the platform rejected the code as
\* invalid, the in-flight record is left exactly as it was, in its step and
\* with its connection, phone number and challenge token, nothing else of
\* the manager or the store changes, and a verify_otp that returns success
\* is possible from there for the same user.
C40_InvalidCodeKeepsRecord ==
    /\ [][\A u \in Accounts :
            (ByOperation("verify_otp", u) /\ result'.error = ErrInvalidOtp)
            => /\ pending_logins[u] # NoPending
               /\ pending_logins'[u] = pending_logins[u]
               /\ ManagerUnchanged]_vars
    /\ [](\A u \in Accounts :
            (result.op = "verify_otp" /\ result.user_id = u /\ result.error = ErrInvalidOtp)
            => /\ pending_logins[u] # NoPending
               /\ ENABLED VerifyOtpSucceeds(u))

\* C40 witness: verify_otp has just reported an invalid code, and the
\* record is in the code-sent step with its connection.
C40_Witness ==
    \E u \in Accounts :
        /\ result.op = "verify_otp"
        /\ result.user_id = u
        /\ result.error = ErrInvalidOtp
        /\ pending_logins[u] # NoPending
        /\ pending_logins[u].step = "otp"
        /\ pending_logins[u].phone_code_hash = pending_logins[u].client
        /\ client_state[pending_logins[u].client] = "connected"

\* ------------------------------------------------------------------------
\* get_client await by await, next to /logout and to running clone jobs
\* ------------------------------------------------------------------------

\* A session saved by an earlier run of the process.
SavedSession ==
    [user_id |-> 1, phone_number |-> "+15550001", session_string |-> 0, is_active |-> TRUE]

\* The process has just started: the manager is empty, the store holds what
\* earlier runs left, a session of the user or none.
InitSession ==
    /\ CloneOff
    /\ BotIdle
    /\ HelpersIdle
    /\ pending_logins = [u \in Accounts |-> NoPending]
    /\ active_clients = [u \in Accounts |-> 0]
    /\ client_state = [c \in 1..MaxClients |-> "new"]
    /\ next_client = 0
    /\ users \in {<<>>, <<SavedSession>>}
    /\ result = NoResult
    /\ getting = NotGetting

\* What get_client returns to its caller.
GetClientResult(user_id, client, store_read) ==
    [op |-> "get_client", user_id |-> user_id, success |-> client # 0,
     step |-> "", error |-> "", client |-> client, store_read |-> store_read]

\* get_client up to its first await: the cached client is returned when it
\* is connected; otherwise the call is suspended at
\* await self.db.get_user_session(user_id).
GetClientBegin(user_id) ==
    /\ getting = NotGetting
    /\ IF CachedUsable(Manager, user_id)
       THEN /\ result' = GetClientResult(user_id, active_clients[user_id], FALSE)
            /\ UNCHANGED getting
       ELSE /\ getting' = [at |-> "reading", user_id |-> user_id, client |-> 0]
            /\ UNCHANGED result
    /\ UNCHANGED <<pending_logins, active_clients, client_state, next_client, users>>
    /\ UNCHANGED <<cloneVars, botVars, helperVars>>

\* The store answers: None is returned when there is no active session;
\* otherwise start_client_from_session builds a Client from the session
\* string and the call is suspended at await client.start().
GetClientRead(user_id) ==
    /\ getting.at = "reading"
    /\ getting.user_id = user_id
    /\ \E store_ok \in BOOLEAN :
        LET k == get_user_session(users, user_id, store_ok)
        IN  IF k = 0
            THEN /\ result' = GetClientResult(user_id, 0, TRUE)
                 /\ getting' = NotGetting
                 /\ UNCHANGED next_client
            ELSE /\ next_client < MaxClients
                 /\ next_client' = next_client + 1
                 /\ getting' = [getting EXCEPT !.at = "starting", !.client = next_client + 1]
                 /\ UNCHANGED result
    /\ UNCHANGED <<pending_logins, active_clients, client_state, users>>
    /\ UNCHANGED <<cloneVars, botVars, helperVars>>

\* client.start() returns or raises: self.active_clients[user_id] = client
\* and the client is returned, or None is.
GetClientStarted(user_id) ==
    /\ getting.at = "starting"
    /\ getting.user_id = user_id
    /\ \E start_ok \in BOOLEAN :
        IF start_ok
        THEN /\ client_state' = [client_state EXCEPT ![getting.client] = "connected"]
             /\ active_clients' = [active_clients EXCEPT ![user_id] = getting.client]
             /\ result' = GetClientResult(user_id, getting.client, TRUE)
        ELSE /\ result' = GetClientResult(user_id, 0, TRUE)
             /\ UNCHANGED <<client_state, active_clients>>
    /\ getting' = NotGetting
    /\ UNCHANGED <<pending_logins, next_client, users>>
    /\ UNCHANGED <<cloneVars, botVars, helperVars>>

\* The prechecks of clone_command all pass with the client get_client
\* returned from the cache, and the loop starts with it.
StartLoopWithClient(h) ==
    /\ handler[h].user_id \in Accounts
    /\ CachedUsable(Manager, handler[h].user_id)
    /\ StartLoop(h)

\* Commands of one user after a restart: the get_client of /status and of
\* the clone commands, /logout, /clone and the jobs it starts, and
\* connections lost.
NextSession ==
    \/ \E u \in Accounts : GetClientBegin(u)
    \/ \E u \in Accounts : GetClientRead(u)
    \/ \E u \in Accounts : GetClientStarted(u)
    \/ \E u \in Accounts : logout(u)
    \/ \E u \in Accounts : ConnectionLost(u)
    \/ \E h \in Handlers, u \in Accounts : ReceiveClone(h, "clone", u)
    \/ \E h \in Handlers : PrechecksFail(h)
    \/ \E h \in Handlers : StartLoopWithClient(h)
    \/ \E h \in Handlers : LoopReturns(h)

SpecSession == InitSession /\ [][NextSession]_vars

\* C34: a get_client in flight while logout returns success for the same
\* user, the session it had read being deleted, caches no client and returns
\* none when it completes.
C34_LogoutExcludesInFlightGet ==
    [][\A u \in Accounts :
        (/\ getting.at = "starting"
         /\ getting.user_id = u
         /\ result.op = "logout"
         /\ result.user_id = u
         /\ result.success
         /\ get_user_session(users, u, TRUE) = 0
         /\ getting'.at = "idle")
        => /\ active_clients'[u] = 0
           /\ result'.client = 0]_vars

\* C39: the client a running replication loop copies with is never
\* stopped.
C39_RunningJobKeepsItsClient ==
    \A h \in Handlers :
        (handler[h].at = "running" /\ user_client[h] # 0)
        => client_state[user_client[h]] # "stopped"

\* ------------------------------------------------------------------------
\* The helpers without state: parse_telegram_link, check_post_permission
\* ------------------------------------------------------------------------

\* A link is the sequence of its characters.
Digits == {"0", "1", "2", "3", "4", "5", "6", "7", "8", "9"}

Letters ==
    {"a", "b", "c", "d", "e", "f", "g", "h", "i", "j", "k", "l", "m",
     "n", "o", "p", "q", "r", "s", "t", "u", "v", "w", "x", "y", "z",
     "A", "B", "C", "D", "E", "F", "G", "H", "I", "J", "K", "L", "M",
     "N", "O", "P", "Q", "R", "S", "T", "U", "V", "W", "X", "Y", "Z"}

Whitespace == {" ", "\t", "\n"}

DigitValue(c) ==
    CASE c = "0" -> 0 [] c = "1" -> 1 [] c = "2" -> 2 [] c = "3" -> 3
      [] c = "4" -> 4 [] c = "5" -> 5 [] c = "6" -> 6 [] c = "7" -> 7
      [] c = "8" -> 8 [] c = "9" -> 9

Take(s, n) == SubSeq(s, 1, n)

Drop(s, n) == SubSeq(s, n + 1, Len(s))

StartsWith(s, literal) ==
    Len(s) >= Len(literal) /\ Take(s, Len(literal)) = literal

\* The length of the longest prefix of s made of characters of the class.
RECURSIVE Run(_, _)
Run(s, class) ==
    IF s = <<>> \/ Head(s) \notin class THEN 0 ELSE 1 + Run(Tail(s), class)

\* str.strip()
RECURSIVE Strip(_)
Strip(s) ==
    IF s = <<>> THEN s
    ELSE IF Head(s) \in Whitespace THEN Strip(Tail(s))
    ELSE IF s[Len(s)] \in Whitespace THEN Strip(Take(s, Len(s) - 1))
    ELSE s

\* int() of a non-empty run of digits.
RECURSIVE ToInt(_)
ToInt(ds) ==
    IF ds = <<>> THEN 0
    ELSE 10 * ToInt(Take(ds, Len(ds) - 1)) + DigitValue(ds[Len(ds)])

\* re.match found nothing.
NoMatch == [matched |-> FALSE]

\* (?:https?://)?  An optional group that is present is consumed: without
\* it the next literal, "t", would have to match the "h".
AfterScheme(s) ==
    IF StartsWith(s, <<"h", "t", "t", "p", "s", ":", "/", "/">>) THEN Drop(s, 8)
    ELSE IF StartsWith(s, <<"h", "t", "t", "p", ":", "/", "/">>) THEN Drop(s, 7)
    ELSE s

\* (\d+) where the pattern goes on with a non-digit or ends: the longest run
\* of digits, at least one.  re.match is satisfied wherever the pattern
\* ends; what follows in the link is not looked at.
Digits1(s) ==
    IF Run(s, Digits) >= 1
    THEN [matched |-> TRUE, group |-> Take(s, Run(s, Digits)), rest |-> Drop(s, Run(s, Digits))]
    ELSE NoMatch

\* (\d+)/(\d+) at the start of s.
NumberSlashNumber(s) ==
    LET a == Digits1(s)
    IN  IF a.matched /\ a.rest # <<>> /\ Head(a.rest) = "/"
        THEN LET b == Digits1(Tail(a.rest))
             IN  IF b.matched
                 THEN [matched |-> TRUE, g1 |-> a.group, g2 |-> b.group]
                 ELSE NoMatch
        ELSE NoMatch

\* forwarder.py:41  {3,30}
UsernameMiddleMin == 3

UsernameMiddleMax == 30

\* ([a-zA-Z][a-zA-Z0-9_]{3,30}[a-zA-Z0-9])/(\d+) at the start of s.  No
\* class of the username holds "/", so the username is what stands before
\* the first character outside [a-zA-Z0-9_], and that character is the "/".
UsernameSlashNumber(s) ==
    LET n    == Run(s, Letters \cup Digits \cup {"_"})
        name == Take(s, n)
    IN  IF /\ n >= 1 + UsernameMiddleMin + 1
           /\ n <= 1 + UsernameMiddleMax + 1
           /\ name[1] \in Letters
           /\ name[n] \in Letters \cup Digits
           /\ Len(s) > n
           /\ s[n + 1] = "/"
        THEN LET b == Digits1(Drop(s, n + 1))
             IN  IF b.matched
                 THEN [matched |-> TRUE, g1 |-> name, g2 |-> b.group]
                 ELSE NoMatch
        ELSE NoMatch

\* re.match(r'(?:https?://)?t\.me/c/(\d+)/(\d+)', link)
private_match(link) ==
    IF StartsWith(AfterScheme(link), <<"t", ".", "m", "e", "/", "c", "/">>)
    THEN NumberSlashNumber(Drop(AfterScheme(link), 7))
    ELSE NoMatch

\* re.match(r'(?:https?://)?t\.me/([a-zA-Z][a-zA-Z0-9_]{3,30}[a-zA-Z0-9])/(\d+)', link)
public_match(link) ==
    IF StartsWith(AfterScheme(link), <<"t", ".", "m", "e", "/">>)
    THEN UsernameSlashNumber(Drop(AfterScheme(link), 5))
    ELSE NoMatch

\* re.match(r'@([a-zA-Z][a-zA-Z0-9_]{3,30}[a-zA-Z0-9])/(\d+)', link)
at_match(link) ==
    IF StartsWith(link, <<"@">>) THEN UsernameSlashNumber(Tail(link)) ELSE NoMatch

\* re.match(r'(-?\d+)/(\d+)', link); g1 is the channel id with its sign.
id_match(link) ==
    LET negative == StartsWith(link, <<"-">>)
        m        == NumberSlashNumber(IF negative THEN Tail(link) ELSE link)
    IN  IF m.matched
        THEN [matched |-> TRUE, g1 |-> (IF negative THEN 0 - ToInt(m.g1) ELSE ToInt(m.g1)),
              g2 |-> m.g2]
        ELSE NoMatch

\* The digits of an int() literal after its sign: digits, with single
\* underscores allowed between two digits.
RECURSIVE IntBody(_)
IntBody(s) ==
    /\ s # <<>>
    /\ Head(s) \in Digits
    /\ \/ Len(s) = 1
       \/ IntBody(Tail(s))
       \/ Len(s) >= 3 /\ s[2] = "_" /\ IntBody(Drop(s, 2))

\* int(link) does not raise ValueError.
IsInt(s) ==
    IF s # <<>> /\ Head(s) \in {"+", "-"} THEN IntBody(Tail(s)) ELSE IntBody(s)

\* int(link)
IntValue(s) ==
    LET digits(t) == SelectSeq(t, LAMBDA c : c \in Digits)
    IN  IF Head(s) = "-" THEN 0 - ToInt(digits(s)) ELSE ToInt(digits(s))

\* What parse_telegram_link returns: (None, None), (None, message_id),
\* (channel_id, message_id) or (username, message_id).
ParseFailure == [kind |-> "none"]

\* int(f"-100{private_match.group(1)}")
PrivateChannelId(g1) ==
    LET RECURSIVE Pow10(_)
        Pow10(n) == IF n = 0 THEN 1 ELSE 10 * Pow10(n - 1)
    IN  0 - (100 * Pow10(Len(g1)) + ToInt(g1))

\* parse_telegram_link
parse_telegram_link(raw) ==
    LET link == Strip(raw)
    IN  IF private_match(link).matched
        THEN [kind |-> "id", channel |-> PrivateChannelId(private_match(link).g1),
              message_id |-> ToInt(private_match(link).g2)]
        ELSE IF public_match(link).matched
        THEN [kind |-> "username", channel |-> public_match(link).g1,
              message_id |-> ToInt(public_match(link).g2)]
        ELSE IF at_match(link).matched
        THEN [kind |-> "username", channel |-> at_match(link).g1,
              message_id |-> ToInt(at_match(link).g2)]
        ELSE IF id_match(link).matched
        THEN [kind |-> "id", channel |-> id_match(link).g1,
              message_id |-> ToInt(id_match(link).g2)]
        ELSE IF IsInt(link)
        THEN [kind |-> "message", message_id |-> IntValue(link)]
        ELSE ParseFailure

\* The links parse_telegram_link is applied to: every concatenation of a
\* leading blank or none, a scheme or none, a host part, a channel part, a
\* separator and a sequence part.
LinkParts ==
    [lead   |-> {<<>>, <<" ">>},
     scheme |-> {<<>>, <<"h", "t", "t", "p", "s", ":", "/", "/">>,
                 <<"h", "t", "t", "p", ":", "/", "/">>},
     host   |-> {<<>>, <<"t", ".", "m", "e", "/">>, <<"t", ".", "m", "e", "/", "c", "/">>, <<"@">>},
     who    |-> {<<>>, <<"1", "2">>, <<"-", "1", "2">>,
                 <<"a", "b", "c", "d", "e">>, <<"a", "b", "c", "d">>,
                 <<"a", "b", "c", "d", "_">>, <<"a", "1", "_", "B", "2">>,
                 <<"1", "b", "c", "d", "e">>,
                 [k \in 1..(UsernameMiddleMax + 2) |-> "a"],
                 [k \in 1..(UsernameMiddleMax + 3) |-> "a"]},
     sep    |-> {<<>>, <<"/">>},
     seq    |-> {<<>>, <<"7">>, <<"0", "7">>, <<"7", "x">>, <<"x", "7">>,
                 <<"+", "7">>, <<"1", "_", "0">>, <<"7", "/", "9">>}]

Links ==
    {p.lead \o p.scheme \o p.host \o p.who \o p.sep \o p.seq :
        p \in [lead : LinkParts.lead, scheme : LinkParts.scheme, host : LinkParts.host,
               who : LinkParts.who, sep : LinkParts.sep, seq : LinkParts.seq]}

\* What get_chat can do in check_post_permission: return the chat, raise an
\* RPCError, or raise another exception.
ChatOutcomes == {"ok", "rpc_error", "exception"}

\* What get_chat_member(channel_id, "me") can do: raise (the account is not
\* a participant, or the lookup fails), or return the member's status.
MemberOutcomes ==
    {"raises", "OWNER", "ADMINISTRATOR", "MEMBER", "RESTRICTED", "LEFT", "BANNED"}

\* member.privileges: None, or the privileges with can_post_messages.
Privileges == {"None", "can_post_messages", "cannot_post_messages"}

ReasonNoPermission == "No permission to post in this channel."
ReasonNotAdmin     == "Not an admin in this channel."
ReasonNotMember    == "Not a member of this channel."
ReasonChatError    == "Error accessing channel: str(e)"

PostPermission(can_post, reason) ==
    [kind |-> "result", can_post |-> can_post, reason |-> reason]

\* A mutant of CanPostAsAdministrator: every administrator may post.
AnyAdministrator(privileges) == TRUE

\* if member.privileges and member.privileges.can_post_messages
CanPostAsAdministrator(privileges) == privileges = "can_post_messages"

\* check_post_permission
check_post_permission(chat, member, privileges) ==
    IF chat = "exception" THEN [kind |-> "raised"]
    ELSE IF chat = "rpc_error" THEN PostPermission(FALSE, ReasonChatError)
    ELSE IF member = "raises" THEN PostPermission(FALSE, ReasonNotMember)
    ELSE IF member \in {"OWNER", "ADMINISTRATOR"}
    THEN IF member = "OWNER" THEN PostPermission(TRUE, "")
         ELSE IF CanPostAsAdministrator(privileges) THEN PostPermission(TRUE, "")
         ELSE PostPermission(FALSE, ReasonNoPermission)
    ELSE PostPermission(FALSE, ReasonNotAdmin)

ParseCalls == [fn : {"parse_telegram_link"}, link : Links]

PermissionCalls ==
    [fn : {"check_post_permission"}, chat : ChatOutcomes, member : MemberOutcomes,
     privileges : Privileges]

InitHelpers ==
    /\ CloneOff
    /\ BotIdle
    /\ LoginIdle
    /\ invoked \in ParseCalls \cup PermissionCalls
    /\ returned = NotReturned

ParseLink ==
    /\ invoked.fn = "parse_telegram_link"
    /\ returned = NotReturned
    /\ returned' = parse_telegram_link(invoked.link)
    /\ UNCHANGED invoked
    /\ UNCHANGED <<cloneVars, botVars, loginVars>>

CheckPostPermission ==
    /\ invoked.fn = "check_post_permission"
    /\ returned = NotReturned
    /\ returned' = check_post_permission(invoked.chat, invoked.member, invoked.privileges)
    /\ UNCHANGED invoked
    /\ UNCHANGED <<cloneVars, botVars, loginVars>>

NextHelpers == ParseLink \/ CheckPostPermission

SpecHelpers == InitHelpers /\ [][NextHelpers]_vars

\* ------------------------------------------------------------------------
\* Properties of the helpers (checked under SpecHelpers)
\* ------------------------------------------------------------------------

\* The whole of s is a run of digits, at least one.
IsNumber(s) == s # <<>> /\ Run(s, Digits) = Len(s)

\* The whole of s is a username: 5 to 32 characters of [a-zA-Z0-9_], the
\* first a letter, the last a letter or a digit.
IsUsername(s) ==
    /\ Len(s) >= 5
    /\ Len(s) <= 32
    /\ Run(s, Letters \cup Digits \cup {"_"}) = Len(s)
    /\ s[1] \in Letters
    /\ s[Len(s)] \in Letters \cup Digits

\* The link, blanks around it aside, is as a whole one of the five supported
\* forms: a private link, a public link, @username/sequence,
\* channel id/sequence, or an integer.
SupportedForm(raw) ==
    LET s == Strip(raw)
    IN  \/ IsInt(s)
        \/ \E k \in 1..Len(s) :
            LET left  == Take(s, k - 1)
                right == Drop(s, k)
                host  == AfterScheme(left)
            IN  /\ s[k] = "/"
                /\ IsNumber(right)
                /\ \/ IsNumber(left)
                   \/ left # <<>> /\ Head(left) = "-" /\ IsNumber(Tail(left))
                   \/ left # <<>> /\ Head(left) = "@" /\ IsUsername(Tail(left))
                   \/ /\ StartsWith(host, <<"t", ".", "m", "e", "/", "c", "/">>)
                      /\ IsNumber(Drop(host, 7))
                   \/ /\ StartsWith(host, <<"t", ".", "m", "e", "/">>)
                      /\ IsUsername(Drop(host, 5))

\* C18: a link that is not, as a whole, one of the five supported forms
\* parses to the failure result (None, None).
C18_MalformedLinkFails ==
    (/\ invoked.fn = "parse_telegram_link"
     /\ returned # NotReturned
     /\ ~SupportedForm(invoked.link))
    => returned = ParseFailure

\* C19: check_post_permission returns true exactly when the membership lookup
\* reports the account as the owner of the channel, or as an administrator
\* whose privileges grant can_post_messages; every true result has an empty
\* reason and every false one (a non-member, a plain member, an administrator
\* without the privilege, a channel that cannot be looked up) a non-empty
\* reason.  It returns whenever get_chat raises nothing but an RPCError.
C19_PostPermission ==
    /\ (invoked.fn = "check_post_permission" /\ returned.kind = "result")
       => /\ returned.can_post <=>
                /\ invoked.chat = "ok"
                /\ \/ invoked.member = "OWNER"
                   \/ /\ invoked.member = "ADMINISTRATOR"
                      /\ invoked.privileges = "can_post_messages"
          /\ returned.can_post => returned.reason = ""
          /\ (~returned.can_post) => returned.reason # ""
    /\ (/\ invoked.fn = "check_post_permission"
        /\ returned # NotReturned
        /\ invoked.chat # "exception")
       => returned.kind = "result"

\* An administrator whose privileges do not grant can_post_messages was
\* refused with the reason for it.
C19_Witness ==
    /\ invoked.fn = "check_post_permission"
    /\ invoked.chat = "ok"
    /\ invoked.member = "ADMINISTRATOR"
    /\ invoked.privileges = "cannot_post_messages"
    /\ returned = PostPermission(FALSE, ReasonNoPermission)

====
